---- MODULE Spec2Model ----
(***************************************************************************)
(* A model of the data-freshness and fair-use layer of ipmapaws:           *)
(*   - lib/cache.ts (blob version): memoryCache and the blob tier,         *)
(*     getCachedData, getCachedDataWithVersion, setCachedData, clearCache; *)
(*   - lib/background-sync.ts: fetchAWSIPRanges, shouldUpdate,             *)
(*     performSync and its isRunning guard;                                *)
(*   - lib/rate-limit.ts: the shared store of RequestRecords, the          *)
(*     middleware built by createRateLimit, the periodic sweep.            *)
(*                                                                         *)
(* Every await of the code is a boundary between two actions: what runs    *)
(* between two awaits runs atomically on the event loop.                   *)
(***************************************************************************)
EXTENDS Integers, Sequences, FiniteSets, Bags, TLC

(***************************************************************************)
(* Option values: None is JavaScript's null/undefined, Some(x) a value.    *)
(***************************************************************************)
None == << >>
Some(x) == << x >>

(***************************************************************************)
(* Time.  The cache clock counts units of 12 hours, so 24 h is 2 units.    *)
(* CHECK_INTERVAL (one hour) is the clock's smallest step: the model keeps *)
(* it shorter than the two durations, not its ratio of 1 to 24.            *)
(***************************************************************************)
MaxTime == 3
CACHE_DURATION == 2
FORCE_REFRESH_INTERVAL == 2
CHECK_INTERVAL == 1
MaxStarts == 2

NumSyncs == 2
NumReaders == 1

SyncIds == 1..NumSyncs
ReaderIds == 1..NumReaders

(***************************************************************************)
(* The upstream document (AWSIPRanges).  "" stands for a field that is     *)
(* missing or falsy.                                                       *)
(***************************************************************************)
Missing == ""
Doc(token, date) ==
    [syncToken |-> token, createDate |-> date, prefixes |-> "v4", ipv6_prefixes |-> "v6"]
\* Three published versions: between two of them the syncToken alone, the
\* createDate alone, or both differ.
AWSIPRanges == {Doc("A", "d1"), Doc("B", "d1"), Doc("A", "d2")}
DocFields == {"syncToken", "createDate", "prefixes", "ipv6_prefixes"}
Blanked(doc, f) == [doc EXCEPT ![f] = Missing]

(***************************************************************************)
(* The limiter's requests and responses.                                   *)
(***************************************************************************)
\* A request: the headers the middleware reads.  Missing is an absent header.
Request(internal, referer, userAgent, forwarded, realIp, cfIp) ==
    [internal |-> internal, referer |-> referer, userAgent |-> userAgent,
     forwarded |-> forwarded, realIp |-> realIp, cfIp |-> cfIp]

NoRequest == Request(Missing, Missing, Missing, Missing, Missing, Missing)

\* A response of the middleware: the status and the rate-limit headers (-1 for
\* a header that is not set); threw when the promise rejects instead.
Response(l, request, exempt, status, threw, limit, remaining, reset, window, retryAfter) ==
    [limiter |-> l, request |-> request, exempt |-> exempt, status |-> status,
     threw |-> threw, limit |-> limit, remaining |-> remaining, reset |-> reset,
     window |-> window, retryAfter |-> retryAfter]
NoResponse == Response("", NoRequest, FALSE, 0, FALSE, -1, -1, -1, -1, -1)

VARIABLES
    now,          \* Date.now()
    upstream,     \* the document ip-ranges.amazonaws.com serves now
    blob,         \* the durable tier: None or Some(CacheData)
    memoryCache,  \* cache.ts:172
    isRunning,    \* background-sync.ts:9
    sync,         \* the performSync invocations: position and locals
    reader,       \* the getCachedData invocations: position and locals
    clearPc,      \* the clearCache invocation: "idle" or "del"
    lastWrite,    \* observation: the last setCachedData that has returned
    limiters,     \* the limiters made by createRateLimit: name -> options
    store,        \* rate-limit.ts:19, clientId -> the RequestRecord it maps to
    heap,         \* the RequestRecord objects: count and resetTime
    inflight,     \* the middleware invocations that await their handler (a bag)
    lastResponse, \* observation: the response the last step returned, if any
    VERCEL,       \* process.env.VERCEL is set
    syncInterval, \* background-sync.ts:8, None or the timer and its next firing
    intervals,    \* the interval timers of the runtime that are active (a bag)
    startCalls,   \* observation: the calls of startBackgroundSync so far
    syncCalls,    \* observation: the calls of performSync they and the timer made
    upstreamSilent, \* ip-ranges.amazonaws.com does not answer at present
    upstreamRecovered, \* from now on every upstream fetch returns a valid payload
    syncStarted,  \* route.ts:7
    timeoutId,    \* utils.ts debounce: None or the timeout set by the last call
    timeouts,     \* the timeouts of the runtime that are pending
    history,      \* observation: the calls of the debounced wrapper and of func
    filtering,    \* a call of filterPrefixes: its arguments and what it returned
    lastClear,    \* observation: the last clearCache that has returned
    runs          \* two runs of one limiter side by side, each with its own store

cacheState == << upstream, blob, memoryCache, isRunning, sync, reader,
                 clearPc, lastWrite >>
limiterState == << limiters, store, heap, inflight, lastResponse >>
schedState == << VERCEL, syncInterval, intervals, startCalls, syncCalls >>
libState == << timeoutId, timeouts, history, filtering, lastClear, runs >>
utilState == << schedState, upstreamSilent, upstreamRecovered, syncStarted, libState >>
vars == << now, cacheState, limiterState, utilState >>

(***************************************************************************)
(* cache.ts                                                                *)
(***************************************************************************)
CacheData(data, t) ==
    [data |-> data, timestamp |-> t,
     createDate |-> data.createDate, syncToken |-> data.syncToken]

\* isExpired with a snapshot of age CACHE_DURATION already expired.
isExpiredAtD(cached, t) == (t - cached.timestamp) >= CACHE_DURATION

isExpired(cached, t) == (t - cached.timestamp) > CACHE_DURATION

\* A catch block of cache.ts that throws the error it caught again.
RethrowsCaught == TRUE

\* What the catch blocks of cache.ts (lines 201-203, 248-251, 266-268,
\* 301-303, 360-362) do with the error they caught: they log it and go on,
\* nothing is thrown again.
Rethrows == FALSE

\* MemoryWithVersion without the expiry test of cache.ts:307-310.
MemoryWithVersionAnyAge(t) == memoryCache

\* getCachedDataWithVersion, the memory fallback (cache.ts:305-320)
MemoryWithVersion(t) ==
    IF memoryCache # None /\ ~isExpired(memoryCache[1], t)
    THEN memoryCache ELSE None

\* getCachedDataWithVersion, the blob branch once the content is read
\* (cache.ts:284-300): readOk is FALSE when fetch, text or JSON.parse threw.
BlobWithVersion(readOk, t) ==
    IF readOk /\ blob # None /\ ~isExpired(blob[1], t)
    THEN blob ELSE MemoryWithVersion(t)

(***************************************************************************)
(* background-sync.ts                                                      *)
(***************************************************************************)
\* What the upstream GET can produce.
FetchResponses ==
    {[kind |-> k, body |-> upstream] : k \in {"network", "timeout", "status"}}
    \cup {[kind |-> "json", body |-> upstream]}
    \cup {[kind |-> "json", body |-> Blanked(upstream, f)] : f \in DocFields}

\* The upstream fetch without its abort signal.
FetchTimeoutNone == FALSE

\* line 25: signal: AbortSignal.timeout(30000)
FetchTimeout == TRUE

FetchFailed(resp) ==
    resp.kind # "json" \/ \E f \in DocFields : resp.body[f] = Missing

\* How the await of the upstream fetch can settle: while the upstream does not
\* answer, only the abort signal ends it.
FetchSettlements ==
    IF upstreamSilent
    THEN {resp \in FetchResponses : resp.kind = "timeout" /\ FetchTimeout}
    ELSE IF upstreamRecovered
    THEN {resp \in FetchResponses : ~FetchFailed(resp)}
    ELSE FetchResponses

\* fetchAWSIPRanges whose structure check leaves out ipv6_prefixes.
fetchSkipsIpv6Check(resp) ==
    CASE resp.kind = "network" -> [threw |-> TRUE, error |-> "fetch failed", data |-> None]
      [] resp.kind = "timeout" -> [threw |-> TRUE, error |-> "The operation was aborted due to timeout", data |-> None]
      [] resp.kind = "status"  -> [threw |-> TRUE, error |-> "AWS API responded with status", data |-> None]
      [] OTHER ->
            IF resp.body.prefixes = Missing
               \/ resp.body.syncToken = Missing \/ resp.body.createDate = Missing
            THEN [threw |-> TRUE, error |-> "Invalid AWS IP ranges response structure", data |-> None]
            ELSE [threw |-> FALSE, error |-> "", data |-> Some(resp.body)]

\* fetchAWSIPRanges without the check of the response structure (lines 34-37).
fetchUnvalidated(resp) ==
    IF resp.kind = "json"
    THEN [threw |-> FALSE, error |-> "", data |-> Some(resp.body)]
    ELSE [threw |-> TRUE, error |-> "fetch failed", data |-> None]

\* fetchAWSIPRanges: [threw, error, data]
fetchAWSIPRanges(resp) ==
    CASE resp.kind = "network" -> [threw |-> TRUE, error |-> "fetch failed", data |-> None]
      [] resp.kind = "timeout" -> [threw |-> TRUE, error |-> "The operation was aborted due to timeout", data |-> None]
      [] resp.kind = "status"  -> [threw |-> TRUE, error |-> "AWS API responded with status", data |-> None]
      [] OTHER ->
            IF resp.body.prefixes = Missing \/ resp.body.ipv6_prefixes = Missing
               \/ resp.body.syncToken = Missing \/ resp.body.createDate = Missing
            THEN [threw |-> TRUE, error |-> "Invalid AWS IP ranges response structure", data |-> None]
            ELSE [threw |-> FALSE, error |-> "", data |-> Some(resp.body)]

Result(n, kind, detail, remote, age) ==
    [needsUpdate |-> n, reason |-> << kind, detail >>, remoteData |-> remote,
     cacheAge |-> age]

\* shouldUpdate whose no-cache branch returns without the fetched remoteData.
shouldUpdateDropsRemote(cached, resp, t) ==
    LET f == fetchAWSIPRanges(resp) IN
    IF cached = None
    THEN IF f.threw
         THEN Result(FALSE, "Failed to fetch initial data", f.error, None, -1)
         ELSE Result(TRUE, "No cached data found", "", None, -1)
    ELSE IF f.threw
         THEN Result(FALSE, "Failed to check for updates", f.error, None, -1)
         ELSE IF f.data[1].createDate # cached[1].createDate
                 \/ f.data[1].syncToken # cached[1].syncToken
              THEN Result(TRUE, "AWS data updated",
                          IF f.data[1].createDate # cached[1].createDate
                          THEN "createDate changed" ELSE "syncToken changed", f.data, -1)
              ELSE IF t - cached[1].timestamp > FORCE_REFRESH_INTERVAL
                   THEN Result(TRUE, "Force refresh due to cache age", "", f.data,
                               t - cached[1].timestamp)
                   ELSE Result(FALSE, "Data is up to date", "", None, t - cached[1].timestamp)

\* shouldUpdate with the force refresh at cacheAge >= FORCE_REFRESH_INTERVAL.
shouldUpdateForceAtF(cached, resp, t) ==
    LET f == fetchAWSIPRanges(resp) IN
    IF cached = None
    THEN IF f.threw
         THEN Result(FALSE, "Failed to fetch initial data", f.error, None, -1)
         ELSE Result(TRUE, "No cached data found", "", f.data, -1)
    ELSE IF f.threw
         THEN Result(FALSE, "Failed to check for updates", f.error, None, -1)
         ELSE IF f.data[1].createDate # cached[1].createDate
                 \/ f.data[1].syncToken # cached[1].syncToken
              THEN Result(TRUE, "AWS data updated",
                          IF f.data[1].createDate # cached[1].createDate
                          THEN "createDate changed" ELSE "syncToken changed", f.data, -1)
              ELSE IF t - cached[1].timestamp >= FORCE_REFRESH_INTERVAL
                   THEN Result(TRUE, "Force refresh due to cache age", "", f.data,
                               t - cached[1].timestamp)
                   ELSE Result(FALSE, "Data is up to date", "", None, t - cached[1].timestamp)

\* shouldUpdate that takes every fetched payload for a new version.
shouldUpdateAlways(cached, resp, t) ==
    LET f == fetchAWSIPRanges(resp) IN
    IF f.threw
    THEN Result(FALSE, "Failed to check for updates", f.error, None, -1)
    ELSE Result(TRUE, "AWS data updated", "syncToken changed", f.data, -1)

\* shouldUpdate from the point where the upstream fetch settles: cached is what
\* getCachedDataWithVersion returned, t is Date.now() of line 101.
shouldUpdate(cached, resp, t) ==
    LET f == fetchAWSIPRanges(resp) IN
    IF cached = None
    THEN IF f.threw
         THEN Result(FALSE, "Failed to fetch initial data", f.error, None, -1)
         ELSE Result(TRUE, "No cached data found", "", f.data, -1)
    ELSE IF f.threw
         THEN Result(FALSE, "Failed to check for updates", f.error, None, -1)
         ELSE LET remoteData == f.data[1]
                  createDateChanged == remoteData.createDate # cached[1].createDate
                  syncTokenChanged == remoteData.syncToken # cached[1].syncToken
                  cacheAge == t - cached[1].timestamp
              IN IF createDateChanged \/ syncTokenChanged
                 THEN Result(TRUE, "AWS data updated",
                             IF createDateChanged THEN "createDate changed"
                                                  ELSE "syncToken changed",
                             f.data, -1)
                 ELSE IF cacheAge > FORCE_REFRESH_INTERVAL
                      THEN Result(TRUE, "Force refresh due to cache age", "", f.data, cacheAge)
                      ELSE Result(FALSE, "Data is up to date", "", None, cacheAge)

NoResult == Result(FALSE, "", "", None, -1)
\* A caller of performSync: startBackgroundSync's calls ("interval", whose
\* promise is only given a catch handler) or triggerSync ("api"), whose return
\* value is kept in ret until the caller calls again.
IdleSync == [pc |-> "idle", cached |-> None, failed |-> FALSE, result |-> NoResult,
             cacheData |-> None, caller |-> "interval", ret |-> None]

\* PerformSyncOutcome without the catch block of lines 157-158.
PerformSyncOutcomeUncaught(failed) == IF failed THEN "threw" ELSE "returned"

\* performSync, lines 137-162: whatever failed inside the run, the catch block
\* logs it and the promise resolves.
PerformSyncOutcome(failed) == "returned"

\* triggerSync, lines 224-234
triggerSync(outcome) ==
    IF outcome = "returned"
    THEN [success |-> TRUE, message |-> "Sync completed successfully"]
    ELSE [success |-> FALSE, message |-> "Sync failed"]

\* performSync settles for caller i; ran: it went past its guard (line 129);
\* failed: an error reached its catch block (line 157).
Settle(i, failed, ran) ==
    LET outcome == PerformSyncOutcome(failed) IN
    [IdleSync EXCEPT !.caller = sync[i].caller,
                     !.ret = IF sync[i].caller = "api"
                             THEN Some([result |-> triggerSync(outcome),
                                        outcome |-> outcome, ran |-> ran,
                                        failed |-> failed])
                             ELSE None]
IdleReader == [pc |-> "idle", ret |-> None, at |-> 0, afterSet |-> FALSE,
               readable |-> FALSE, threw |-> FALSE, route |-> "", afterClear |-> FALSE]

InFlight(i) == sync[i].pc \in {"head", "blob", "fetch", "decide", "put"}

\* The run guard of performSync, line 129.
AlreadyRunning == isRunning

CacheInit ==
    /\ upstream \in AWSIPRanges
    /\ blob = None
    /\ memoryCache = None
    /\ isRunning = FALSE
    /\ sync = [i \in SyncIds |-> IdleSync]
    /\ reader = [j \in ReaderIds |-> IdleReader]
    /\ clearPc = "idle"
    /\ lastWrite = None

\* The clock advances.
Tick ==
    /\ now < MaxTime
    /\ now' = now + 1
    /\ lastResponse' = NoResponse
    /\ UNCHANGED utilState
    /\ UNCHANGED << upstream, blob, memoryCache, isRunning, sync, reader, clearPc, lastWrite >>
    /\ UNCHANGED << limiters, store, heap, inflight >>

\* The upstream stops answering, or answers again.
Outage ==
    /\ ~upstreamRecovered
    /\ upstreamSilent' = ~upstreamSilent
    /\ UNCHANGED << now, cacheState, limiterState, schedState, upstreamRecovered,
                    syncStarted, libState >>

\* The upstream is sound from now on.
Recover ==
    /\ ~upstreamSilent
    /\ ~upstreamRecovered
    /\ upstreamRecovered' = TRUE
    /\ UNCHANGED << now, cacheState, limiterState, schedState, upstreamSilent,
                    syncStarted, libState >>

\* The publisher replaces the document.
Publish ==
    /\ \E d \in AWSIPRanges \ {upstream} : upstream' = d
    /\ UNCHANGED << utilState, now, blob, memoryCache, isRunning, sync, reader, clearPc, lastWrite >>
    /\ UNCHANGED limiterState

\* SyncSkip with the early return inside the try block, so that the finally
\* block (line 161) clears the flag of the sync that is running.
SyncSkipClearsFlag(i) ==
    /\ sync[i].pc = "idle"
    /\ AlreadyRunning
    /\ sync' = [sync EXCEPT ![i].pc = "skipped", ![i].ret = None]
    /\ isRunning' = FALSE
    /\ UNCHANGED << utilState, now, upstream, blob, memoryCache, reader, clearPc, lastWrite >>
    /\ UNCHANGED limiterState

\* performSync is entered while a sync is running: lines 129-132.
SyncSkip(i) ==
    /\ sync[i].pc = "idle"
    /\ AlreadyRunning
    /\ sync' = [sync EXCEPT ![i].pc = "skipped", ![i].ret = None]
    /\ UNCHANGED << utilState, now, upstream, blob, memoryCache, isRunning, reader, clearPc, lastWrite >>
    /\ UNCHANGED limiterState

\* The caller of a skipped performSync goes on.
SyncReturn(i) ==
    /\ sync[i].pc = "skipped"
    /\ sync' = [sync EXCEPT ![i] = Settle(i, FALSE, FALSE)]
    /\ UNCHANGED << utilState, now, upstream, blob, memoryCache, isRunning, reader, clearPc, lastWrite >>
    /\ UNCHANGED limiterState

\* performSync, lines 129-140, into shouldUpdate and getCachedDataWithVersion
\* up to the await of head().
SyncStart(i) ==
    /\ sync[i].pc = "idle"
    /\ ~AlreadyRunning
    /\ isRunning' = TRUE
    /\ sync' = [sync EXCEPT ![i].pc = "head", ![i].ret = None]
    /\ UNCHANGED << utilState, now, upstream, blob, memoryCache, reader, clearPc, lastWrite >>
    /\ UNCHANGED limiterState

\* head() settles (cache.ts:282): with a blob the content is fetched next,
\* without one (or on an error) the memory tier answers.
SyncHead(i) ==
    /\ sync[i].pc = "head"
    /\ \E headOk \in BOOLEAN :
         IF headOk /\ blob # None
         THEN sync' = [sync EXCEPT ![i].pc = "blob"]
         ELSE sync' = [sync EXCEPT ![i].pc = "fetch", ![i].cached = MemoryWithVersion(now)]
    /\ UNCHANGED << utilState, now, upstream, blob, memoryCache, isRunning, reader, clearPc, lastWrite >>
    /\ UNCHANGED limiterState

\* The blob's content is read and parsed (cache.ts:285-303), then the upstream
\* fetch is issued.
SyncBlob(i) ==
    /\ sync[i].pc = "blob"
    /\ \E readOk \in BOOLEAN :
         sync' = [sync EXCEPT ![i].pc = "fetch", ![i].cached = BlobWithVersion(readOk, now)]
    /\ UNCHANGED << utilState, now, upstream, blob, memoryCache, isRunning, reader, clearPc, lastWrite >>
    /\ UNCHANGED limiterState

\* The upstream fetch settles and shouldUpdate returns (lines 58-123).
SyncFetch(i) ==
    /\ sync[i].pc = "fetch"
    /\ \E resp \in FetchSettlements :
         sync' = [sync EXCEPT ![i].pc = "decide", ![i].failed = FetchFailed(resp),
                              ![i].result = shouldUpdate(sync[i].cached, resp, now)]
    /\ UNCHANGED << utilState, now, upstream, blob, memoryCache, isRunning, reader, clearPc, lastWrite >>
    /\ UNCHANGED limiterState

\* performSync after shouldUpdate (lines 142-153): either setCachedData up to
\* its await of put() (cache.ts:226-245), or nothing to do and the finally
\* block (line 161).
SyncDecide(i) ==
    /\ sync[i].pc = "decide"
    /\ IF sync[i].result.needsUpdate /\ sync[i].result.remoteData # None
       THEN LET cacheData == CacheData(sync[i].result.remoteData[1], now) IN
            /\ memoryCache' = Some(cacheData)
            /\ sync' = [sync EXCEPT ![i].pc = "put", ![i].cacheData = Some(cacheData),
                                 ![i].cached = None, ![i].failed = FALSE]
            /\ lastWrite' = None
            /\ lastClear' = None
            /\ reader' = [j \in ReaderIds |->
                             [reader[j] EXCEPT !.afterSet = FALSE, !.afterClear = FALSE]]
            /\ UNCHANGED isRunning
       ELSE /\ sync' = [sync EXCEPT ![i] = Settle(i, sync[i].failed, TRUE)]
            /\ isRunning' = FALSE
            /\ UNCHANGED << memoryCache, lastWrite, lastClear, reader >>
    /\ UNCHANGED << schedState, upstreamSilent, upstreamRecovered, syncStarted, timeoutId, timeouts, history, filtering, runs >>
    /\ UNCHANGED << now, upstream, blob, clearPc >>
    /\ UNCHANGED limiterState

\* put() settles (cache.ts:241-251), setCachedData returns, performSync ends
\* (lines 146-161).
SyncPut(i) ==
    /\ sync[i].pc = "put"
    /\ \E putOk \in BOOLEAN :
         /\ blob' = IF putOk THEN sync[i].cacheData ELSE blob
         /\ lastWrite' = Some([data |-> sync[i].cacheData[1].data,
                               timestamp |-> sync[i].cacheData[1].timestamp,
                               reason |-> sync[i].result.reason[1],
                               threw |-> ~putOk /\ Rethrows])
         /\ sync' = [sync EXCEPT ![i] = Settle(i, ~putOk, TRUE)]
    /\ isRunning' = FALSE
    /\ UNCHANGED << utilState, now, upstream, memoryCache, reader, clearPc >>
    /\ UNCHANGED limiterState

\* performSync is called by startBackgroundSync or by its timer and runs up to
\* its return (lines 129-132) or to its first await (lines 134-140).
EnterPerformSync(i) ==
    /\ sync[i].pc = "idle"
    /\ sync[i].caller = "interval"
    /\ IF AlreadyRunning
       THEN /\ sync' = [sync EXCEPT ![i].pc = "skipped", ![i].ret = None]
            /\ UNCHANGED isRunning
       ELSE /\ sync' = [sync EXCEPT ![i].pc = "head", ![i].ret = None]
            /\ isRunning' = TRUE

\* Serverless that never sees the environment variable.
ServerlessIgnored == FALSE

\* line 170: if (process.env.VERCEL)
Serverless == VERCEL

Timer(created, due) == [created |-> created, due |-> due]

\* TimerExists that never finds a timer.
TimerExistsNever == FALSE

\* line 179: if (syncInterval)
TimerExists == syncInterval # None

\* startBackgroundSync, lines 168-197: what it changes
StartEffects ==
    /\ startCalls < MaxStarts
    /\ startCalls' = startCalls + 1
    /\ IF Serverless
       THEN /\ \E i \in SyncIds : EnterPerformSync(i)
            /\ syncCalls' = syncCalls + 1
            /\ UNCHANGED << syncInterval, intervals >>
       ELSE IF TimerExists
       THEN UNCHANGED << sync, isRunning, syncCalls, syncInterval, intervals >>
       ELSE /\ \E i \in SyncIds : EnterPerformSync(i)
            /\ syncCalls' = syncCalls + 1
            /\ syncInterval' = Some(Timer(now, now + CHECK_INTERVAL))
            /\ intervals' = intervals (+) SetToBag({Timer(now, now + CHECK_INTERVAL)})

\* startBackgroundSync is called by itself.
startBackgroundSync ==
    /\ StartEffects
    /\ UNCHANGED << VERCEL, now, upstream, blob, memoryCache, reader, clearPc, lastWrite >>
    /\ UNCHANGED << limiterState, upstreamSilent, upstreamRecovered, syncStarted, libState >>

\* stopBackgroundSync, lines 202-208
stopBackgroundSync ==
    /\ IF syncInterval # None
       THEN /\ intervals' = intervals (-) SetToBag({syncInterval[1]})
            /\ syncInterval' = None
       ELSE UNCHANGED << syncInterval, intervals >>
    /\ UNCHANGED << VERCEL, startCalls, syncCalls, now, cacheState >>
    /\ UNCHANGED << limiterState, upstreamSilent, upstreamRecovered, syncStarted, libState >>

\* The callback of setInterval, lines 192-196, runs when its period is over.
TimerFires ==
    /\ \E timer \in BagToSet(intervals) :
         /\ now = timer.due
         /\ LET next == Timer(timer.created, timer.due + CHECK_INTERVAL) IN
            /\ intervals' = (intervals (-) SetToBag({timer})) (+) SetToBag({next})
            /\ syncInterval' = IF syncInterval = Some(timer) THEN Some(next) ELSE syncInterval
    /\ \E i \in SyncIds : EnterPerformSync(i)
    /\ syncCalls' = syncCalls + 1
    /\ UNCHANGED << VERCEL, startCalls, now, upstream, blob, memoryCache, reader, clearPc, lastWrite >>
    /\ UNCHANGED << limiterState, upstreamSilent, upstreamRecovered, syncStarted, libState >>

\* The clock advances up to the timer's next firing.
BackgroundTick ==
    /\ now < MaxTime
    /\ \A timer \in BagToSet(intervals) : now < timer.due
    /\ now' = now + 1
    /\ lastResponse' = NoResponse
    /\ UNCHANGED << upstream, blob, memoryCache, isRunning, sync, reader, clearPc, lastWrite >>
    /\ UNCHANGED << limiters, store, heap, inflight >>
    /\ UNCHANGED << schedState, upstreamSilent, upstreamRecovered, syncStarted, libState >>

\* setCachedData(data) is called by itself: up to the await of put()
\* (cache.ts:226-241).
SetStart(data) ==
    /\ sync[1].pc = "idle"
    /\ LET cacheData == CacheData(data, now) IN
       /\ memoryCache' = Some(cacheData)
       /\ sync' = [sync EXCEPT ![1].pc = "set", ![1].cacheData = Some(cacheData)]
    /\ lastWrite' = None
    /\ lastClear' = None
    /\ reader' = [j \in ReaderIds |->
                     [reader[j] EXCEPT !.afterSet = FALSE, !.afterClear = FALSE]]
    /\ UNCHANGED << schedState, upstreamSilent, upstreamRecovered, syncStarted, timeoutId, timeouts, history, filtering, runs >>
    /\ UNCHANGED << now, upstream, blob, isRunning, clearPc >>
    /\ UNCHANGED limiterState

\* put() settles and setCachedData returns (cache.ts:241-252).
SetPut ==
    /\ sync[1].pc = "set"
    /\ \E putOk \in BOOLEAN :
         /\ blob' = IF putOk THEN sync[1].cacheData ELSE blob
         /\ lastWrite' = Some([data |-> sync[1].cacheData[1].data,
                               timestamp |-> sync[1].cacheData[1].timestamp,
                               reason |-> "",
                               threw |-> ~putOk /\ Rethrows])
    /\ sync' = [sync EXCEPT ![1] = IdleSync]
    /\ UNCHANGED << utilState, now, upstream, memoryCache, isRunning, reader, clearPc >>
    /\ UNCHANGED limiterState

\* getCachedData is called: up to the await of head() (cache.ts:181).
GetStart(j) ==
    /\ reader[j].pc = "idle"
    /\ reader' = [reader EXCEPT ![j] = [IdleReader EXCEPT !.pc = "head",
                                                          !.afterSet = (lastWrite # None),
                                                          !.afterClear = (lastClear # None)]]
    /\ UNCHANGED << utilState, now, upstream, blob, memoryCache, isRunning, sync, clearPc, lastWrite >>
    /\ UNCHANGED limiterState

\* getCachedData, the memory fallback (cache.ts:205-220): << result, memoryCache' >>
MemoryFallback(t) ==
    IF memoryCache # None
    THEN IF ~isExpired(memoryCache[1], t)
         THEN << Some(memoryCache[1].data), memoryCache >>
         ELSE << None, None >>
    ELSE << None, memoryCache >>

\* head() settles for getCachedData (cache.ts:181-183).
GetHead(j) ==
    /\ reader[j].pc = "head"
    /\ \E headOk \in BOOLEAN :
         IF headOk /\ blob # None
         THEN /\ reader' = [reader EXCEPT ![j].pc = "blob"]
              /\ UNCHANGED memoryCache
         ELSE /\ reader' = [reader EXCEPT ![j].pc = "done", ![j].at = now,
                                          ![j].readable = headOk,
                                          ![j].ret = MemoryFallback(now)[1]]
              /\ memoryCache' = MemoryFallback(now)[2]
    /\ UNCHANGED << utilState, now, upstream, blob, isRunning, sync, clearPc, lastWrite >>
    /\ UNCHANGED limiterState

\* GetBlob without the assignment of line 197.
GetBlobNoReadThrough(j) ==
    /\ reader[j].pc = "blob"
    /\ \E readOk \in BOOLEAN :
         IF readOk /\ blob # None /\ ~isExpired(blob[1], now)
         THEN /\ UNCHANGED memoryCache
              /\ reader' = [reader EXCEPT ![j].pc = "done", ![j].at = now,
                                          ![j].readable = TRUE,
                                          ![j].ret = Some(blob[1].data)]
         ELSE /\ reader' = [reader EXCEPT ![j].pc = "done", ![j].at = now,
                                          ![j].readable = readOk,
                                          ![j].ret = MemoryFallback(now)[1]]
              /\ memoryCache' = MemoryFallback(now)[2]
    /\ UNCHANGED << utilState, now, upstream, blob, isRunning, sync, clearPc, lastWrite >>
    /\ UNCHANGED limiterState

\* The blob's content is read and parsed (cache.ts:185-203).
GetBlob(j) ==
    /\ reader[j].pc = "blob"
    /\ \E readOk \in BOOLEAN :
         IF readOk /\ blob # None /\ ~isExpired(blob[1], now)
         THEN /\ memoryCache' = blob
              /\ reader' = [reader EXCEPT ![j].pc = "done", ![j].at = now,
                                          ![j].readable = TRUE,
                                          ![j].ret = Some(blob[1].data)]
         ELSE IF ~readOk /\ Rethrows
         THEN /\ reader' = [reader EXCEPT ![j].pc = "done", ![j].at = now,
                                          ![j].threw = TRUE]
              /\ UNCHANGED memoryCache
         ELSE /\ reader' = [reader EXCEPT ![j].pc = "done", ![j].at = now,
                                          ![j].readable = readOk,
                                          ![j].ret = MemoryFallback(now)[1]]
              /\ memoryCache' = MemoryFallback(now)[2]
    /\ UNCHANGED << utilState, now, upstream, blob, isRunning, sync, clearPc, lastWrite >>
    /\ UNCHANGED limiterState

\* The caller takes the value getCachedData returned.
GetReturn(j) ==
    /\ reader[j].pc = "done"
    /\ reader' = [reader EXCEPT ![j] = IdleReader]
    /\ UNCHANGED << utilState, now, upstream, blob, memoryCache, isRunning, sync, clearPc, lastWrite >>
    /\ UNCHANGED limiterState

\* What getCachedData answers from at instant t when the blob is readable or
\* not (cache.ts:177-221): the tier and its snapshot, or None.
Served(readable, t) ==
    IF readable /\ blob # None /\ ~isExpired(blob[1], t)
    THEN Some([tier |-> "blob", snapshot |-> blob[1]])
    ELSE IF memoryCache # None /\ ~isExpired(memoryCache[1], t)
    THEN Some([tier |-> "memory", snapshot |-> memoryCache[1]])
    ELSE None

\* The three read routes and the limiter each one is wrapped in.
Routes == {"api", "search", "export"}

\* The handler's response for what getCachedData returned: 503 when there is
\* no snapshot (route.ts:71-86 with Retry-After: 30, search/route.ts:91-99 and
\* the export route's lines 742-751 without the header), else 200.
HandlerResponse(route, data) ==
    IF data = None
    THEN Response(route, NoRequest, TRUE, 503, FALSE, -1, -1, -1, -1,
                  IF route = "api" THEN 30 ELSE -1)
    ELSE Response(route, NoRequest, TRUE, 200, FALSE, -1, -1, -1, -1, -1)

\* A read handler is called: the raw route starts the background sync on its
\* first call (route.ts:60-65); each route then calls getCachedData, up to
\* the await of head().
HandlerStart(j, route) ==
    /\ reader[j].pc = "idle"
    /\ IF route = "api" /\ ~syncStarted
       THEN StartEffects /\ syncStarted' = TRUE
       ELSE UNCHANGED << sync, isRunning, syncInterval, intervals, startCalls, syncCalls, syncStarted >>
    /\ reader' = [reader EXCEPT ![j] = [IdleReader EXCEPT !.pc = "head", !.route = route,
                                                          !.afterSet = (lastWrite # None)]]
    /\ UNCHANGED << VERCEL, upstreamSilent, upstreamRecovered, now, upstream, blob, memoryCache, clearPc, lastWrite >>
    /\ UNCHANGED << limiterState, libState >>

\* getCachedData has returned: the handler answers.
HandlerReturn(j) ==
    /\ reader[j].pc = "done"
    /\ reader[j].route # ""
    /\ lastResponse' = HandlerResponse(reader[j].route, reader[j].ret)
    /\ reader' = [reader EXCEPT ![j] = IdleReader]
    /\ UNCHANGED << utilState, now, upstream, blob, memoryCache, isRunning, sync, clearPc, lastWrite >>
    /\ UNCHANGED << limiters, store, heap, inflight >>

\* getCachedDataWithVersion is called: up to the await of head() (cache.ts:282).
VersionStart(j) ==
    /\ reader[j].pc = "idle"
    /\ reader' = [reader EXCEPT ![j] = [IdleReader EXCEPT !.pc = "verHead",
                                                          !.afterSet = (lastWrite # None)]]
    /\ UNCHANGED << utilState, now, upstream, blob, memoryCache, isRunning, sync, clearPc, lastWrite >>
    /\ UNCHANGED limiterState

\* head() settles for getCachedDataWithVersion (cache.ts:282-284, 305-320).
VersionHead(j) ==
    /\ reader[j].pc = "verHead"
    /\ \E headOk \in BOOLEAN :
         IF headOk /\ blob # None
         THEN reader' = [reader EXCEPT ![j].pc = "verBlob"]
         ELSE reader' = [reader EXCEPT ![j].pc = "verDone", ![j].at = now,
                                       ![j].readable = headOk,
                                       ![j].ret = MemoryWithVersion(now)]
    /\ UNCHANGED << utilState, now, upstream, blob, memoryCache, isRunning, sync, clearPc, lastWrite >>
    /\ UNCHANGED limiterState

\* The blob's content is read and parsed for getCachedDataWithVersion
\* (cache.ts:285-320).
VersionBlob(j) ==
    /\ reader[j].pc = "verBlob"
    /\ \E readOk \in BOOLEAN :
         IF ~readOk /\ Rethrows
         THEN reader' = [reader EXCEPT ![j].pc = "verDone", ![j].at = now,
                                       ![j].threw = TRUE]
         ELSE reader' = [reader EXCEPT ![j].pc = "verDone", ![j].at = now,
                                       ![j].readable = readOk,
                                       ![j].ret = BlobWithVersion(readOk, now)]
    /\ UNCHANGED << utilState, now, upstream, blob, memoryCache, isRunning, sync, clearPc, lastWrite >>
    /\ UNCHANGED limiterState

\* What getCacheInfo returns (cache.ts:326-335); the size is left out.
Info(cached, t, source) ==
    [exists |-> TRUE, timestamp |-> cached.timestamp, age |-> t - cached.timestamp,
     expired |-> (t - cached.timestamp) > CACHE_DURATION,
     createDate |-> cached.createDate, syncToken |-> cached.syncToken,
     source |-> source]
NoInfo == [exists |-> FALSE]

\* getCacheInfo, the memory branch (cache.ts:364-384)
MemoryInfo(t) ==
    IF memoryCache # None THEN Info(memoryCache[1], t, "memory") ELSE NoInfo

\* getCacheInfo is called: up to the await of head() (cache.ts:338).
InfoStart(j) ==
    /\ reader[j].pc = "idle"
    /\ reader' = [reader EXCEPT ![j] = [IdleReader EXCEPT !.pc = "infoHead",
                                                          !.afterSet = (lastWrite # None)]]
    /\ UNCHANGED << utilState, now, upstream, blob, memoryCache, isRunning, sync, clearPc, lastWrite >>
    /\ UNCHANGED limiterState

\* head() settles for getCacheInfo (cache.ts:338-340, 364-384).
InfoHead(j) ==
    /\ reader[j].pc = "infoHead"
    /\ \E headOk \in BOOLEAN :
         IF headOk /\ blob # None
         THEN reader' = [reader EXCEPT ![j].pc = "infoBlob"]
         ELSE reader' = [reader EXCEPT ![j].pc = "infoDone", ![j].at = now,
                                       ![j].readable = headOk,
                                       ![j].ret = Some(MemoryInfo(now))]
    /\ UNCHANGED << utilState, now, upstream, blob, memoryCache, isRunning, sync, clearPc, lastWrite >>
    /\ UNCHANGED limiterState

\* The blob's content is read and parsed for getCacheInfo (cache.ts:341-384).
InfoBlob(j) ==
    /\ reader[j].pc = "infoBlob"
    /\ \E readOk \in BOOLEAN :
         IF readOk /\ blob # None
         THEN reader' = [reader EXCEPT ![j].pc = "infoDone", ![j].at = now,
                                       ![j].readable = TRUE,
                                       ![j].ret = Some(Info(blob[1], now, "blob"))]
         ELSE IF ~readOk /\ Rethrows
         THEN reader' = [reader EXCEPT ![j].pc = "infoDone", ![j].at = now,
                                       ![j].threw = TRUE]
         ELSE reader' = [reader EXCEPT ![j].pc = "infoDone", ![j].at = now,
                                       ![j].readable = readOk,
                                       ![j].ret = Some(MemoryInfo(now))]
    /\ UNCHANGED << utilState, now, upstream, blob, memoryCache, isRunning, sync, clearPc, lastWrite >>
    /\ UNCHANGED limiterState

\* The caller takes what getCachedDataWithVersion or getCacheInfo returned.
ReadReturn(j) ==
    /\ reader[j].pc \in {"verDone", "infoDone"}
    /\ reader' = [reader EXCEPT ![j] = IdleReader]
    /\ UNCHANGED << utilState, now, upstream, blob, memoryCache, isRunning, sync, clearPc, lastWrite >>
    /\ UNCHANGED limiterState

\* clearCache up to the await of del() (cache.ts:257-264).
ClearStart ==
    /\ clearPc = "idle"
    /\ clearPc' = "del"
    /\ memoryCache' = None
    /\ lastWrite' = None
    /\ lastClear' = None
    /\ reader' = [j \in ReaderIds |->
                     [reader[j] EXCEPT !.afterSet = FALSE, !.afterClear = FALSE]]
    /\ UNCHANGED << schedState, upstreamSilent, upstreamRecovered, syncStarted, timeoutId, timeouts, history, filtering, runs >>
    /\ UNCHANGED << now, upstream, blob, isRunning, sync >>
    /\ UNCHANGED limiterState

\* del() settles (cache.ts:264-268).
ClearDel ==
    /\ clearPc = "del"
    /\ \E delOk \in BOOLEAN :
         /\ blob' = IF delOk THEN None ELSE blob
         /\ clearPc' = IF ~delOk /\ Rethrows THEN "threw" ELSE "idle"
         /\ lastClear' = Some([deleted |-> delOk])
    /\ UNCHANGED << schedState, upstreamSilent, upstreamRecovered, syncStarted, timeoutId, timeouts, history, filtering, runs >>
    /\ UNCHANGED << now, upstream, memoryCache, isRunning, sync, reader, lastWrite >>
    /\ UNCHANGED limiterState

(***************************************************************************)
(* rate-limit.ts.  In the limiter's specifications the clock counts half   *)
(* seconds: 1000 ms are UnitsPerSecond units.                              *)
(***************************************************************************)
UnitsPerSecond == 2
MaxInflight == 2
MaxWindow == 2
MaxLimit == 2
MaxDebt == 2

\* Math.ceil(ms / 1000), lines 124, 140, 184
CeilSeconds(t) == (t + UnitsPerSecond - 1) \div UnitsPerSecond

requestOrigin == "https://ipmapaws.vercel.app"

\* new URL(referer): None when it throws.
ParseURL(s) ==
    CASE s = "https://ipmapaws.vercel.app/regions" ->
            Some([origin |-> "https://ipmapaws.vercel.app", hostname |-> "ipmapaws.vercel.app"])
      [] s = "http://localhost:3000/" ->
            Some([origin |-> "http://localhost:3000", hostname |-> "localhost"])
      [] s = "https://example.org/page" ->
            Some([origin |-> "https://example.org", hostname |-> "example.org"])
      [] s = "https://ipmapaws.vercel.app.evil.example/x" ->
            Some([origin |-> "https://ipmapaws.vercel.app.evil.example",
                  hostname |-> "ipmapaws.vercel.app.evil.example"])
      [] OTHER -> None

\* A text as the sequence of its pieces (words, separators, blanks).
Pieces(text) ==
    CASE text = "203.0.113.7, 10.0.0.1" -> << "203.0.113.7", ",", " ", "10.0.0.1" >>
      [] text = " 203.0.113.7 ,198.51.100.9" -> << " ", "203.0.113.7", " ", ",", "198.51.100.9" >>
      [] text = "ipmapaws.vercel.app.evil.example" -> << "ipmapaws.vercel.app", ".evil.example" >>
      [] text = "curl/8.5.0" -> << "curl", "/8.5.0" >>
      [] text = "PostmanRuntime/7.36" -> << "Postman", "Runtime/7.36" >>
      [] text = "Next.js Middleware" -> << "Next.js", " ", "Middleware" >>
      [] text = "node-fetch/1.0" -> << "node-fetch", "/1.0" >>
      [] text = "us-west-2" -> << "us-west", "-2" >>
      [] text = "us-west-2-lax-1" -> << "us-west", "-2", "-lax-1" >>
      [] text = " ec2 " -> << " ", "ec2", " " >>
      [] text = "us-east-1 ec2" -> << "us-east-1", " ", "ec2" >>
      [] text = "" -> << >>
      [] OTHER -> << text >>

\* text.includes(token), for a token that is one piece
Includes(text, token) == \E i \in 1..Len(Pieces(text)) : Pieces(text)[i] = token

internalDomains == {"localhost", "127.0.0.1", "ipmapaws.vercel.app"}

\* refererUrl.hostname.includes(domain), line 65
HostIncludes(hostname, domain) == Includes(hostname, domain)

\* userAgent.includes(token), lines 75 and 80
AgentIncludes(userAgent, token) == Includes(userAgent, token)

\* isInternalRequest, lines 36-84
isInternalRequest(request) ==
    LET userAgent == request.userAgent IN
    \/ request.internal = "true"
    \/ /\ request.referer # Missing
       /\ ParseURL(request.referer) # None
       /\ \/ ParseURL(request.referer)[1].origin = requestOrigin
          \/ \E domain \in internalDomains :
                HostIncludes(ParseURL(request.referer)[1].hostname, domain)
    \/ AgentIncludes(userAgent, "Next.js") \/ AgentIncludes(userAgent, "node-fetch")
    \/ /\ request.referer = Missing
       /\ ~AgentIncludes(userAgent, "curl")
       /\ ~AgentIncludes(userAgent, "Postman")

\* split(',')[0]: the pieces before the first comma
RECURSIVE SplitFirst(_)
SplitFirst(ps) ==
    IF ps = << >> \/ Head(ps) = "," THEN << >>
    ELSE << Head(ps) >> \o SplitFirst(Tail(ps))

\* trim(): without the blanks at both ends
RECURSIVE TrimStart(_)
TrimStart(ps) ==
    IF ps # << >> /\ Head(ps) = " " THEN TrimStart(Tail(ps)) ELSE ps
RECURSIVE TrimEnd(_)
TrimEnd(ps) ==
    IF ps # << >> /\ ps[Len(ps)] = " " THEN TrimEnd(SubSeq(ps, 1, Len(ps) - 1)) ELSE ps
Trim(ps) == TrimEnd(TrimStart(ps))

\* The string the pieces spell: one address, or nothing.
Spell(ps) == IF ps = << >> THEN "" ELSE ps[1]

\* forwarded.split(',')[0].trim()
FirstTrimmed(forwarded) == Spell(Trim(SplitFirst(Pieces(forwarded))))

\* getClientId that looks at x-real-ip before x-forwarded-for.
getClientIdRealIpFirst(request) ==
    IF request.realIp # Missing THEN request.realIp
    ELSE IF request.forwarded # Missing THEN FirstTrimmed(request.forwarded)
    ELSE IF request.cfIp # Missing THEN request.cfIp
    ELSE "unknown"

\* getClientId, lines 191-212
getClientId(request) ==
    IF request.forwarded # Missing THEN FirstTrimmed(request.forwarded)
    ELSE IF request.realIp # Missing THEN request.realIp
    ELSE IF request.cfIp # Missing THEN request.cfIp
    ELSE "unknown"

\* The requests the model sends: an external tool behind a proxy, the same
\* address browsing the site itself, and a second external address.
Requests ==
    {Request(Missing, Missing, "curl/8.5.0", "203.0.113.7, 10.0.0.1", Missing, Missing),
     Request(Missing, "https://ipmapaws.vercel.app/regions", "Mozilla/5.0", "203.0.113.7, 10.0.0.1", Missing, Missing),
     Request(Missing, "https://example.org/page", "PostmanRuntime/7.36", Missing, "198.51.100.9", Missing)}

\* One address with every combination of marker, referer and user agent.
ClassifyRequests ==
    {Request(m, ref, ua, "203.0.113.7, 10.0.0.1", Missing, Missing) :
        m \in {Missing, "true", "1"},
        ref \in {Missing, "https://ipmapaws.vercel.app/regions", "http://localhost:3000/",
                 "https://example.org/page", "https://ipmapaws.vercel.app.evil.example/x",
                 "not a url"},
        ua \in {Missing, "Mozilla/5.0", "curl/8.5.0", "PostmanRuntime/7.36",
                "Next.js Middleware", "node-fetch/1.0"}}

\* An external tool with every combination of the three address headers, and
\* a second tool without any of them.
HeaderRequests ==
    {Request(Missing, Missing, "curl/8.5.0", f, r, c) :
        f \in {Missing, " 203.0.113.7 ,198.51.100.9"},
        r \in {Missing, "198.51.100.9"},
        c \in {Missing, "192.0.2.2"}}
    \cup {Request(Missing, Missing, "PostmanRuntime/7.36", Missing, Missing, Missing)}

ClientIds == {"203.0.113.7", "198.51.100.9", "192.0.2.2", "unknown"}

\* createRateLimit's options, lines 87-94
Options(windowMs, maxRequests, skipSuccessfulRequests, skipFailedRequests, bypassInternal) ==
    [windowMs |-> windowMs, maxRequests |-> maxRequests,
     skipSuccessfulRequests |-> skipSuccessfulRequests,
     skipFailedRequests |-> skipFailedRequests, bypassInternal |-> bypassInternal]

\* lines 215-234, in half seconds
apiRateLimit == Options(60 * 60 * UnitsPerSecond, 50, FALSE, FALSE, TRUE)
searchRateLimit == Options(60 * UnitsPerSecond, 10, FALSE, FALSE, TRUE)
exportRateLimit == Options(10 * 60 * UnitsPerSecond, 5, FALSE, FALSE, TRUE)

RouteLimiters ==
    [l \in {"api", "search", "export"} |->
        CASE l = "api" -> apiRateLimit
          [] l = "search" -> searchRateLimit
          [] OTHER -> exportRateLimit]

\* The RequestRecord objects.  Two records made for one client have different
\* resetTimes (the later one is made only after the earlier one's resetTime),
\* so clientId and resetTime name the object.  store maps a client to the
\* resetTime of its record, NoRecord when it has none; a middleware invocation
\* keeps its reference across the await; a record no reference reaches is
\* collected.
NoRecord == -1
Record(clientId, count, resetTime) ==
    [clientId |-> clientId, count |-> count, resetTime |-> resetTime]
Rec(clientId, key) == CHOOSE x \in heap : x.clientId = clientId /\ x.resetTime = key
\* Put on a copy of the record: the object the store holds keeps its count.
PutOnCopy(h, record) ==
    IF \E x \in h : x.clientId = record.clientId /\ x.resetTime = record.resetTime
    THEN h ELSE h \cup {record}

Put(h, record) ==
    {x \in h : ~(x.clientId = record.clientId /\ x.resetTime = record.resetTime)}
    \cup {record}
Collect(h, st, fl) ==
    {x \in h : \/ st[x.clientId] = x.resetTime
               \/ \E v \in BagToSet(fl) : /\ ~v.exempt
                                          /\ getClientId(v.request) = x.clientId
                                          /\ v.record = x.resetTime}

\* A middleware invocation awaiting its handler: its limiter, its request,
\* whether it bypassed the limiter, and the record it holds.
Invocation(l, request, exempt, key) ==
    [limiter |-> l, request |-> request, exempt |-> exempt, record |-> key]
Started(v) == inflight (+) SetToBag({v})
Settled(v) == inflight (-) SetToBag({v})

\* Bypass that knows the x-internal-request marker only.
BypassMarkerOnly(l, request) == limiters[l].bypassInternal /\ request.internal = "true"

\* lines 100-101: the request bypasses the limiter
Bypass(l, request) == limiters[l].bypassInternal /\ isInternalRequest(request)

\* NeedsFreshRecord with the window over at t >= resetTime.
NeedsFreshRecordAtReset(clientId, t) ==
    store[clientId] = NoRecord \/ t >= Rec(clientId, store[clientId]).resetTime

\* NeedsFreshRecord that never replaces a record the store holds.
NeedsFreshRecordOnlyMissing(clientId, t) == store[clientId] = NoRecord

\* line 113: there is no record, or the record's window is over
NeedsFreshRecord(clientId, t) ==
    store[clientId] = NoRecord \/ t > Rec(clientId, store[clientId]).resetTime

Max(a, b) == IF a > b THEN a ELSE b

\* startBackgroundSync has not been called.
SchedIdle ==
    /\ VERCEL = FALSE
    /\ syncInterval = None
    /\ intervals = EmptyBag
    /\ startCalls = 0
    /\ syncCalls = 0

\* A debounced function that was never called.
LibIdle ==
    /\ timeoutId = None /\ timeouts = {} /\ history = << >> /\ filtering = None
    /\ lastClear = None /\ runs = None

UtilIdle == SchedIdle /\ upstreamSilent = FALSE /\ upstreamRecovered = FALSE /\ syncStarted = FALSE /\ LibIdle

LimiterIdle ==
    /\ store = [c \in ClientIds |-> NoRecord]
    /\ heap = {}
    /\ inflight = EmptyBag
    /\ lastResponse = NoResponse

CacheIdle ==
    /\ upstream = Doc("A", "d1")
    /\ blob = None
    /\ memoryCache = None
    /\ isRunning = FALSE
    /\ sync = [i \in SyncIds |-> IdleSync]
    /\ reader = [j \in ReaderIds |-> IdleReader]
    /\ clearPc = "idle"
    /\ lastWrite = None

\* rateLimitMiddleware for a request that bypasses the limiter, lines 100-104:
\* the handler is called and its promise is what the middleware returns.
AdmitExempt(l, request) ==
    /\ BagCardinality(inflight) < MaxInflight
    /\ Bypass(l, request)
    /\ inflight' = Started(Invocation(l, request, TRUE, NoRecord))
    /\ lastResponse' = NoResponse
    /\ UNCHANGED << limiters, store, heap >>
    /\ UNCHANGED << utilState, now, cacheState >>

\* rateLimitMiddleware lines 106-157 for a counted request: up to the 429
\* response, or up to the await of handler().
Admit(l, request) ==
    /\ BagCardinality(inflight) < MaxInflight
    /\ ~Bypass(l, request)
    /\ LET o == limiters[l]
           clientId == getClientId(request)
           record == IF NeedsFreshRecord(clientId, now)
                     THEN Record(clientId, 0, now + o.windowMs)
                     ELSE Rec(clientId, store[clientId])
           store1 == [store EXCEPT ![clientId] = record.resetTime]
       IN /\ record.count > -MaxDebt
          /\ IF record.count >= o.maxRequests
             THEN /\ lastResponse' =
                        Response(l, request, FALSE, 429, FALSE, o.maxRequests, 0,
                                 CeilSeconds(record.resetTime), o.windowMs \div UnitsPerSecond,
                                 CeilSeconds(record.resetTime - now))
                  /\ store' = store1
                  /\ heap' = Collect(Put(heap, record), store1, inflight)
                  /\ UNCHANGED inflight
             ELSE LET counted == IF ~o.skipSuccessfulRequests /\ ~o.skipFailedRequests
                                 THEN [record EXCEPT !.count = @ + 1] ELSE record
                      fl == Started(Invocation(l, request, FALSE, record.resetTime))
                  IN /\ inflight' = fl
                     /\ store' = store1
                     /\ heap' = Collect(Put(heap, counted), store1, fl)
                     /\ lastResponse' = NoResponse
    /\ UNCHANGED limiters
    /\ UNCHANGED << utilState, now, cacheState >>

\* What a handler can do: answer below 400, answer 400 or above, or throw.
HandlerOutcomes == {"ok", "error", "throw"}
HandlerStatus(outcome) == IF outcome = "ok" THEN 200 ELSE 503

\* The handler of a bypassing request settles: its response, or its exception,
\* is the middleware's (line 103).
CompleteExempt(v, outcome) ==
    /\ v \in BagToSet(inflight)
    /\ v.exempt
    /\ lastResponse' =
           Response(v.limiter, v.request, TRUE,
                    IF outcome = "throw" THEN 0 ELSE HandlerStatus(outcome),
                    outcome = "throw", -1, -1, -1, -1, -1)
    /\ inflight' = Settled(v)
    /\ UNCHANGED << limiters, store, heap >>
    /\ UNCHANGED << utilState, now, cacheState >>

\* The handler of a counted request settles: lines 156-187.
Complete(v, outcome) ==
    /\ v \in BagToSet(inflight)
    /\ ~v.exempt
    /\ LET o == limiters[v.limiter]
           held == Rec(getClientId(v.request), v.record)
           shouldCount ==
               IF outcome = "throw" THEN ~o.skipFailedRequests
               ELSE ~(o.skipSuccessfulRequests /\ HandlerStatus(outcome) < 400)
           record == IF (o.skipSuccessfulRequests \/ o.skipFailedRequests) /\ ~shouldCount
                     THEN [held EXCEPT !.count = @ - 1] ELSE held
           fl == Settled(v)
       IN /\ lastResponse' =
                 Response(v.limiter, v.request, FALSE,
                          IF outcome = "throw" THEN 500 ELSE HandlerStatus(outcome),
                          FALSE, o.maxRequests, Max(0, o.maxRequests - record.count),
                          CeilSeconds(record.resetTime), o.windowMs \div UnitsPerSecond, -1)
          /\ inflight' = fl
          /\ heap' = Collect(Put(heap, record), store, fl)
    /\ UNCHANGED << limiters, store >>
    /\ UNCHANGED << utilState, now, cacheState >>

\* Expired that takes the reset instant itself as expired.
ExpiredAtReset(record, t) == t >= record.resetTime

\* line 26: the record's window is over
Expired(record, t) == t > record.resetTime

\* The periodic sweep, lines 22-30.
Sweep ==
    /\ LET st == [c \in ClientIds |->
                    IF store[c] # NoRecord /\ Expired(Rec(c, store[c]), now)
                    THEN NoRecord ELSE store[c]]
       IN /\ store' = st
          /\ heap' = Collect(heap, st, inflight)
    /\ lastResponse' = NoResponse
    /\ UNCHANGED << limiters, inflight >>
    /\ UNCHANGED << utilState, now, cacheState >>

\* The requests of one limiter's clients.
LimiterNext ==
    \/ Tick
    \/ \E l \in DOMAIN limiters, request \in Requests : AdmitExempt(l, request)
    \/ \E l \in DOMAIN limiters, request \in Requests : Admit(l, request)
    \/ \E v \in BagToSet(inflight), outcome \in HandlerOutcomes : CompleteExempt(v, outcome)
    \/ \E v \in BagToSet(inflight), outcome \in HandlerOutcomes : Complete(v, outcome)
    \/ Sweep

(***************************************************************************)
(* Two runs of one limiter side by side.  Each run has its own store, its  *)
(* own RequestRecord objects and its own middleware invocations; the       *)
(* invocations of one request have the same slot in both runs.             *)
(***************************************************************************)
Slots == 1..MaxInflight
Run(st, hp, fl, resp) == [store |-> st, heap |-> hp, inflight |-> fl, lastResponse |-> resp]
FreshRun == Run([c \in ClientIds |-> NoRecord], {}, [k \in Slots |-> None], NoResponse)

\* line 107 with every request in one bucket.
clientIdOfShared(request) == "unknown"

\* line 107: const clientId = getClientId(request), the key of lines 111, 119
clientIdOf(request) == getClientId(request)

RecIn(w, clientId, key) == CHOOSE x \in w.heap : x.clientId = clientId /\ x.resetTime = key
\* The records of a run that its store or one of its invocations refers to.
CollectRun(h, st, fl) ==
    {x \in h : \/ st[x.clientId] = x.resetTime
               \/ \E k \in Slots : /\ fl[k] # None
                                   /\ clientIdOf(fl[k][1].request) = x.clientId
                                   /\ fl[k][1].record = x.resetTime}

\* lines 111-120: the record the middleware goes on with in run w
EnterRecord(w, l, request, t) ==
    LET clientId == clientIdOf(request) IN
    IF w.store[clientId] = NoRecord \/ t > RecIn(w, clientId, w.store[clientId]).resetTime
    THEN Record(clientId, 0, t + limiters[l].windowMs)
    ELSE RecIn(w, clientId, w.store[clientId])

\* rateLimitMiddleware lines 106-157 in run w for a counted request: up to
\* the 429 response, or up to the await of handler() in slot k.
Enter(w, l, request, t, k) ==
    LET o == limiters[l]
        record == EnterRecord(w, l, request, t)
        store1 == [w.store EXCEPT ![record.clientId] = record.resetTime]
    IN IF record.count >= o.maxRequests
       THEN Run(store1, CollectRun(Put(w.heap, record), store1, w.inflight), w.inflight,
                Response(l, request, FALSE, 429, FALSE, o.maxRequests, 0,
                         CeilSeconds(record.resetTime), o.windowMs \div UnitsPerSecond,
                         CeilSeconds(record.resetTime - t)))
       ELSE LET counted == IF ~o.skipSuccessfulRequests /\ ~o.skipFailedRequests
                           THEN [record EXCEPT !.count = @ + 1] ELSE record
                fl == [w.inflight EXCEPT ![k] = Some(Invocation(l, request, FALSE, record.resetTime))]
            IN Run(store1, CollectRun(Put(w.heap, counted), store1, fl), fl, NoResponse)

\* The handler awaited in slot k of run w settles: lines 156-187.
Resume(w, k, outcome) ==
    LET v == w.inflight[k][1]
        o == limiters[v.limiter]
        held == RecIn(w, clientIdOf(v.request), v.record)
        shouldCount ==
            IF outcome = "throw" THEN ~o.skipFailedRequests
            ELSE ~(o.skipSuccessfulRequests /\ HandlerStatus(outcome) < 400)
        record == IF (o.skipSuccessfulRequests \/ o.skipFailedRequests) /\ ~shouldCount
                  THEN [held EXCEPT !.count = @ - 1] ELSE held
        fl == [w.inflight EXCEPT ![k] = None]
    IN Run(w.store, CollectRun(Put(w.heap, record), w.store, fl), fl,
           Response(v.limiter, v.request, FALSE,
                    IF outcome = "throw" THEN 500 ELSE HandlerStatus(outcome),
                    FALSE, o.maxRequests, Max(0, o.maxRequests - record.count),
                    CeilSeconds(record.resetTime), o.windowMs \div UnitsPerSecond, -1))

\* The periodic sweep in run w, lines 22-30.
SweepRun(w, t) ==
    LET st == [c \in ClientIds |->
                 IF w.store[c] # NoRecord /\ Expired(RecIn(w, c, w.store[c]), t)
                 THEN NoRecord ELSE w.store[c]]
    IN Run(st, CollectRun(w.heap, st, w.inflight), w.inflight, w.lastResponse)

\* The least slot that is free in both runs.
FreeIn(a, b, k) == a.inflight[k] = None /\ b.inflight[k] = None
FreeSlot(a, b) ==
    CHOOSE k \in Slots : FreeIn(a, b, k) /\ \A j \in Slots : j < k => ~FreeIn(a, b, j)

\* The same requests at the same times in a run with the sweep and in a run
\* without it.
SweptRequest(l, request) ==
    /\ \E k \in Slots : FreeIn(runs.swept, runs.unswept, k)
    /\ EnterRecord(runs.swept, l, request, now).count > -MaxDebt
    /\ EnterRecord(runs.unswept, l, request, now).count > -MaxDebt
    /\ LET k == FreeSlot(runs.swept, runs.unswept) IN
       runs' = [swept |-> Enter(runs.swept, l, request, now, k),
                unswept |-> Enter(runs.unswept, l, request, now, k)]
    /\ UNCHANGED << now, cacheState, limiterState, schedState, upstreamSilent,
                    upstreamRecovered, syncStarted, timeoutId, timeouts, history,
                    filtering, lastClear >>
SweptSettles(k, outcome) ==
    /\ runs.swept.inflight[k] # None
    /\ runs.unswept.inflight[k] # None
    /\ runs' = [swept |-> Resume(runs.swept, k, outcome),
                unswept |-> Resume(runs.unswept, k, outcome)]
    /\ UNCHANGED << now, cacheState, limiterState, schedState, upstreamSilent,
                    upstreamRecovered, syncStarted, timeoutId, timeouts, history,
                    filtering, lastClear >>
\* The timer of line 22 fires in the run that has it.
SweptSweep ==
    /\ runs' = [runs EXCEPT !.swept = SweepRun(@, now)]
    /\ UNCHANGED << now, cacheState, limiterState, schedState, upstreamSilent,
                    upstreamRecovered, syncStarted, timeoutId, timeouts, history,
                    filtering, lastClear >>
SweptNext ==
    \/ Tick
    \/ \E l \in DOMAIN limiters, request \in Requests : SweptRequest(l, request)
    \/ \E k \in Slots, outcome \in HandlerOutcomes : SweptSettles(k, outcome)
    \/ SweptSweep

\* The requests of every client in one run, and in the other run the
\* requests of one client alone, at the same times; the sweep runs in both.
Observed == "203.0.113.7"
\* A step of another client's request leaves the record of what the observed
\* client was answered.
Unobserved(w, before) == [w EXCEPT !.lastResponse = before.lastResponse]
OwnRequest(l, request) ==
    /\ getClientId(request) = Observed
    /\ \E k \in Slots : FreeIn(runs.shared, runs.alone, k)
    /\ EnterRecord(runs.shared, l, request, now).count > -MaxDebt
    /\ EnterRecord(runs.alone, l, request, now).count > -MaxDebt
    /\ LET k == FreeSlot(runs.shared, runs.alone) IN
       runs' = [shared |-> Enter(runs.shared, l, request, now, k),
                alone |-> Enter(runs.alone, l, request, now, k)]
    /\ UNCHANGED << now, cacheState, limiterState, schedState, upstreamSilent,
                    upstreamRecovered, syncStarted, timeoutId, timeouts, history,
                    filtering, lastClear >>
OtherRequest(l, request) ==
    /\ getClientId(request) # Observed
    /\ \E k \in Slots : FreeIn(runs.shared, runs.alone, k)
    /\ EnterRecord(runs.shared, l, request, now).count > -MaxDebt
    /\ LET k == FreeSlot(runs.shared, runs.alone) IN
       runs' = [runs EXCEPT !.shared = Unobserved(Enter(@, l, request, now, k), @)]
    /\ UNCHANGED << now, cacheState, limiterState, schedState, upstreamSilent,
                    upstreamRecovered, syncStarted, timeoutId, timeouts, history,
                    filtering, lastClear >>
IsolatedSettles(k, outcome) ==
    /\ runs.shared.inflight[k] # None
    /\ IF runs.alone.inflight[k] # None
       THEN runs' = [shared |-> Resume(runs.shared, k, outcome),
                     alone |-> Resume(runs.alone, k, outcome)]
       ELSE runs' = [runs EXCEPT !.shared = Unobserved(Resume(@, k, outcome), @)]
    /\ UNCHANGED << now, cacheState, limiterState, schedState, upstreamSilent,
                    upstreamRecovered, syncStarted, timeoutId, timeouts, history,
                    filtering, lastClear >>
IsolatedSweep ==
    /\ runs' = [shared |-> SweepRun(runs.shared, now), alone |-> SweepRun(runs.alone, now)]
    /\ UNCHANGED << now, cacheState, limiterState, schedState, upstreamSilent,
                    upstreamRecovered, syncStarted, timeoutId, timeouts, history,
                    filtering, lastClear >>
IsolatedNext ==
    \/ Tick
    \/ \E l \in DOMAIN limiters, request \in Requests : OwnRequest(l, request)
    \/ \E l \in DOMAIN limiters, request \in Requests : OtherRequest(l, request)
    \/ \E k \in Slots, outcome \in HandlerOutcomes : IsolatedSettles(k, outcome)
    \/ IsolatedSweep

\* One limiter and external requests with any of the address headers.
ClientsNext ==
    \/ \E l \in DOMAIN limiters, request \in HeaderRequests : Admit(l, request)
    \/ \E v \in BagToSet(inflight), outcome \in HandlerOutcomes : Complete(v, outcome)

\* One limiter that receives one request at a time, with any marker, referer
\* and user agent.
ClassifyNext ==
    \/ \E l \in DOMAIN limiters, request \in ClassifyRequests :
          inflight = EmptyBag /\ AdmitExempt(l, request)
    \/ \E l \in DOMAIN limiters, request \in ClassifyRequests :
          inflight = EmptyBag /\ Admit(l, request)
    \/ \E v \in BagToSet(inflight), outcome \in HandlerOutcomes : CompleteExempt(v, outcome)
    \/ \E v \in BagToSet(inflight), outcome \in HandlerOutcomes : Complete(v, outcome)

\* The requests of one address to the three routes.
RouteRequests == {r \in Requests : getClientId(r) = "203.0.113.7"}
RoutesNext ==
    \/ Tick
    \/ \E l \in DOMAIN limiters, request \in RouteRequests : AdmitExempt(l, request)
    \/ \E l \in DOMAIN limiters, request \in RouteRequests : Admit(l, request)
    \/ \E v \in BagToSet(inflight), outcome \in HandlerOutcomes : CompleteExempt(v, outcome)
    \/ \E v \in BagToSet(inflight), outcome \in HandlerOutcomes : Complete(v, outcome)
    \/ Sweep

\* One external client of the search route that sends a request at each whole
\* second from 0 s to 9 s, one at 9.5 s and one at 61 s, and sends the next
\* only after the middleware has answered or admitted the one before.
ScenarioEnd == 124
ScenarioRequest ==
    Request(Missing, Missing, "curl/8.5.0", "203.0.113.7, 10.0.0.1", Missing, Missing)
ScenarioClient == getClientId(ScenarioRequest)
EleventhAt == 9 * UnitsPerSecond + UnitsPerSecond \div 2
TwelfthAt == 61 * UnitsPerSecond
ScenarioCount ==
    IF store[ScenarioClient] = NoRecord THEN 0
    ELSE Rec(ScenarioClient, store[ScenarioClient]).count
\* The request of instant t has not been sent yet.
Due(t) ==
    \/ \E k \in 0..9 : t = k * UnitsPerSecond /\ ScenarioCount = k
    \/ t = EleventhAt /\ lastResponse.status # 429
    \/ t = TwelfthAt /\ store[ScenarioClient] # t + limiters["search"].windowMs

\* The clock advances once the request of the instant has been sent.
ScenarioTick ==
    /\ now < ScenarioEnd
    /\ ~Due(now)
    /\ now' = now + 1
    /\ lastResponse' = NoResponse
    /\ UNCHANGED utilState
    /\ UNCHANGED << upstream, blob, memoryCache, isRunning, sync, reader, clearPc, lastWrite >>
    /\ UNCHANGED << limiters, store, heap, inflight >>

ScenarioSend == Due(now) /\ Admit("search", ScenarioRequest)

ScenarioNext ==
    \/ ScenarioTick
    \/ ScenarioSend
    \/ \E v \in BagToSet(inflight), outcome \in HandlerOutcomes : Complete(v, outcome)
    \/ Sweep

(***************************************************************************)
(* utils.ts: debounce.  The clock counts units of the caller's choice.     *)
(***************************************************************************)
DebounceDelay == 2
DebounceEnd == 5
MaxCalls == 3
DebounceArgs == {"first", "second"}

Event(kind, at, args) == [kind |-> kind, at |-> at, args |-> args]
Calls == {p \in DOMAIN history : history[p].kind = "call"}
Invocations == {p \in DOMAIN history : history[p].kind = "func"}

\* clearTimeout that cancels nothing.
clearTimeoutNoop(pending, id) == pending

\* clearTimeout(timeoutId), line 76
clearTimeout(pending, id) == IF id = None THEN pending ELSE pending \ {id[1]}

\* setTimeout(() => func(...args), delay), line 77: the timeout it makes
setTimeout(args, delay, n) == [due |-> now + delay, args |-> args, n |-> n]

\* The debounced wrapper is called, lines 75-78.
DebouncedCall(args) ==
    /\ Cardinality(Calls) < MaxCalls
    /\ LET t == setTimeout(args, DebounceDelay, Len(history) + 1) IN
       /\ timeouts' = clearTimeout(timeouts, timeoutId) \cup {t}
       /\ timeoutId' = Some(t)
    /\ history' = Append(history, Event("call", now, args))
    /\ UNCHANGED << now, cacheState, limiterState, schedState, upstreamSilent, upstreamRecovered, syncStarted, filtering, lastClear, runs >>

\* A pending timeout fires: func(...args), line 77.
TimeoutFires ==
    /\ \E t \in timeouts :
          /\ now = t.due
          /\ history' = Append(history, Event("func", now, t.args))
          /\ timeouts' = timeouts \ {t}
    /\ UNCHANGED << timeoutId, now, cacheState, limiterState, schedState, upstreamSilent, upstreamRecovered, syncStarted, filtering, lastClear, runs >>

\* The clock advances up to the next pending timeout.
DebounceTick ==
    /\ now < DebounceEnd
    /\ \A t \in timeouts : now < t.due
    /\ now' = now + 1
    /\ UNCHANGED << cacheState, limiterState, utilState >>

DebounceNext ==
    \/ DebounceTick
    \/ \E args \in DebounceArgs : DebouncedCall(args)
    \/ TimeoutFires

(***************************************************************************)
(* api.ts: filterPrefixes.  A text is the sequence of its pieces.          *)
(***************************************************************************)
MaxPrefixes == 2

CombinedPrefix(prefix, region, service, group, type) ==
    [prefix |-> prefix, region |-> region, service |-> service,
     network_border_group |-> group, type |-> type]

\* The elements of the lists: those of utils.test.ts:308-330 and a local zone.
TestPrefixes ==
    { CombinedPrefix("192.0.2.0/24", "us-east-1", "EC2", "us-east-1", "ipv4"),
      CombinedPrefix("2001:db8::/32", "us-east-1", "EC2", "us-east-1", "ipv6"),
      CombinedPrefix("203.0.113.0/24", "us-west-2", "S3", "us-west-2", "ipv4"),
      CombinedPrefix("198.51.100.0/24", "us-west-2", "EC2", "us-west-2-lax-1", "ipv4") }

PrefixLists == UNION {[1..n -> TestPrefixes] : n \in 0..MaxPrefixes}

\* The filters argument; None is a property that is not set.
Filters(regions, services, searchTerm, includeIPv4, includeIPv6) ==
    [regions |-> regions, services |-> services, searchTerm |-> searchTerm,
     includeIPv4 |-> includeIPv4, includeIPv6 |-> includeIPv6]
SearchTerms == {"", " ", "S3", " ec2 ", "us-west", "-lax-1", "us-east-1 ec2"}
FilterSets ==
    { Filters(r, s, t, v4, v6) :
        r \in {None, Some(<< >>), Some(<< "us-east-1" >>),
                Some(<< "us-west-2", "us-east-1" >>)},
        s \in {None, Some(<< >>), Some(<< "S3" >>)},
        t \in {None} \cup {Some(text) : text \in SearchTerms},
        v4 \in {None, Some(TRUE), Some(FALSE)},
        v6 \in {None, Some(TRUE), Some(FALSE)} }

\* toLowerCase() of one piece
LowerPiece(piece) ==
    CASE piece = "EC2" -> "ec2"
      [] piece = "S3" -> "s3"
      [] OTHER -> piece
\* toLowerCase()
toLowerCase(ps) == [i \in 1..Len(ps) |-> LowerPiece(ps[i])]

\* text.includes(term): term is a run of consecutive pieces of text
includes(text, term) ==
    \E i \in 0..(Len(text) - Len(term)) :
        \A k \in 1..Len(term) : text[i + k] = term[k]

\* The template string of line 155, lower-cased.
searchableText(prefix) ==
    toLowerCase(Pieces(prefix.prefix) \o << " " >> \o Pieces(prefix.region) \o << " " >>
                \o Pieces(prefix.service) \o << " " >>
                \o Pieces(prefix.network_border_group))

\* new Set(list).has(value)
SetHas(list, value) == \E i \in 1..Len(list) : list[i] = value

\* filterPrefixes, lines 124-161
filterPrefixes(prefixes, filters) ==
    LET includeIPv4 == filters.includeIPv4 # Some(FALSE)
        includeIPv6 == filters.includeIPv6 # Some(FALSE)
        regionSet == IF filters.regions # None /\ Len(filters.regions[1]) > 0
                     THEN filters.regions ELSE None
        serviceSet == IF filters.services # None /\ Len(filters.services[1]) > 0
                      THEN filters.services ELSE None
        searchTerm == IF filters.searchTerm = None THEN None
                      ELSE Some(toLowerCase(Trim(Pieces(filters.searchTerm[1]))))
        Keep(prefix) ==
            /\ ~(~includeIPv4 /\ prefix.type = "ipv4")
            /\ ~(~includeIPv6 /\ prefix.type = "ipv6")
            /\ ~(regionSet # None /\ ~SetHas(regionSet[1], prefix.region))
            /\ ~(serviceSet # None /\ ~SetHas(serviceSet[1], prefix.service))
            /\ (searchTerm # None /\ searchTerm[1] # << >>)
                  => includes(searchableText(prefix), searchTerm[1])
    IN SelectSeq(prefixes, Keep)

FilterCall(prefixes, filters, result) ==
    [prefixes |-> prefixes, filters |-> filters, result |-> result]

\* A caller applies filterPrefixes to its arguments.
ApplyFilter ==
    /\ filtering # None
    /\ filtering[1].result = None
    /\ filtering' = Some(FilterCall(filtering[1].prefixes, filtering[1].filters,
                          Some(filterPrefixes(filtering[1].prefixes, filtering[1].filters))))
    /\ UNCHANGED << now, cacheState, limiterState, schedState, upstreamSilent, upstreamRecovered,
                    syncStarted, timeoutId, timeouts, history, lastClear, runs >>

FilterNext == ApplyFilter

(***************************************************************************)
(* The specifications.                                                     *)
(***************************************************************************)
SyncNext ==
    \/ Tick
    \/ Publish
    \/ \E i \in SyncIds : SyncSkip(i)
    \/ \E i \in SyncIds : SyncReturn(i)
    \/ \E i \in SyncIds : SyncStart(i)
    \/ \E i \in SyncIds : SyncHead(i)
    \/ \E i \in SyncIds : SyncBlob(i)
    \/ \E i \in SyncIds : SyncFetch(i)
    \/ \E i \in SyncIds : SyncDecide(i)
    \/ \E i \in SyncIds : SyncPut(i)

\* One synchronizer run at a time beside the readers of the cache.
CacheNext ==
    \/ Tick
    \/ Publish
    \/ SyncStart(1)
    \/ SyncHead(1)
    \/ SyncBlob(1)
    \/ SyncFetch(1)
    \/ SyncDecide(1)
    \/ SyncPut(1)
    \/ \E j \in ReaderIds : GetStart(j)
    \/ \E j \in ReaderIds : GetHead(j)
    \/ \E j \in ReaderIds : GetBlob(j)
    \/ \E j \in ReaderIds : GetReturn(j)

\* The synchronizer alone over the two cache tiers.
SyncInit == now = 0 /\ CacheInit /\ limiters = RouteLimiters /\ LimiterIdle /\ UtilIdle
SpecSync == SyncInit /\ [][SyncNext]_vars

\* The periodic synchronizer beside calls of triggerSync.
TriggerInit ==
    /\ now = 0
    /\ upstream \in AWSIPRanges
    /\ blob = None
    /\ memoryCache = None
    /\ isRunning = FALSE
    /\ sync = [i \in SyncIds |->
                 IF i = 1 THEN IdleSync ELSE [IdleSync EXCEPT !.caller = "api"]]
    /\ reader = [j \in ReaderIds |-> IdleReader]
    /\ clearPc = "idle"
    /\ lastWrite = None
    /\ limiters = RouteLimiters
    /\ LimiterIdle /\ UtilIdle
SpecTrigger == TriggerInit /\ [][SyncNext]_vars

\* startBackgroundSync, its timer and the syncs they run, in a long-lived or
\* in a serverless process.
BackgroundNext ==
    \/ BackgroundTick
    \/ startBackgroundSync
    \/ TimerFires
    \/ \E i \in SyncIds : SyncReturn(i)
    \/ \E i \in SyncIds : SyncHead(i)
    \/ \E i \in SyncIds : SyncBlob(i)
    \/ \E i \in SyncIds : SyncFetch(i)
    \/ \E i \in SyncIds : SyncDecide(i)
    \/ \E i \in SyncIds : SyncPut(i)
BackgroundInit ==
    /\ now = 0
    /\ CacheIdle
    /\ limiters = RouteLimiters
    /\ LimiterIdle
    /\ VERCEL \in BOOLEAN
    /\ syncInterval = None
    /\ intervals = EmptyBag
    /\ startCalls = 0
    /\ syncCalls = 0
    /\ upstreamSilent = FALSE /\ upstreamRecovered = FALSE
    /\ syncStarted = FALSE
    /\ LibIdle
SpecBackground == BackgroundInit /\ [][BackgroundNext]_vars

\* A long-lived process: calls of startBackgroundSync and stopBackgroundSync,
\* raw-data requests, the timers and the syncs they run.
StartStopNext ==
    \/ BackgroundTick
    \/ startBackgroundSync
    \/ stopBackgroundSync
    \/ TimerFires
    \/ \E i \in SyncIds : SyncReturn(i)
    \/ \E i \in SyncIds : SyncHead(i)
    \/ \E i \in SyncIds : SyncBlob(i)
    \/ \E i \in SyncIds : SyncFetch(i)
    \/ \E i \in SyncIds : SyncDecide(i)
    \/ \E i \in SyncIds : SyncPut(i)
    \/ \E j \in ReaderIds : HandlerStart(j, "api")
    \/ \E j \in ReaderIds : GetHead(j)
    \/ \E j \in ReaderIds : GetBlob(j)
    \/ \E j \in ReaderIds : HandlerReturn(j)
StartStopInit == BackgroundInit /\ ~VERCEL
SpecStartStop == StartStopInit /\ [][StartStopNext]_vars

\* The synchronizer over an upstream that may stop answering; every await of
\* a run settles in the end (the blob store answers or fails, the upstream
\* fetch is under its abort signal).
LiveNext ==
    \/ Tick
    \/ Outage
    \/ \E i \in SyncIds : SyncSkip(i)
    \/ \E i \in SyncIds : SyncReturn(i)
    \/ \E i \in SyncIds : SyncStart(i)
    \/ \E i \in SyncIds : SyncHead(i)
    \/ \E i \in SyncIds : SyncBlob(i)
    \/ \E i \in SyncIds : SyncFetch(i)
    \/ \E i \in SyncIds : SyncDecide(i)
    \/ \E i \in SyncIds : SyncPut(i)
RunsSettle ==
    \A i \in SyncIds :
       /\ WF_vars(SyncReturn(i))
       /\ WF_vars(SyncHead(i))
       /\ WF_vars(SyncBlob(i))
       /\ WF_vars(SyncFetch(i))
       /\ WF_vars(SyncDecide(i))
       /\ WF_vars(SyncPut(i))
LiveInit == now = 0 /\ CacheIdle /\ limiters = RouteLimiters /\ LimiterIdle /\ UtilIdle
SpecLive == LiveInit /\ [][LiveNext]_vars /\ RunsSettle

\* The three read handlers beside the background sync their first raw call
\* starts.
HandlersNext ==
    \/ BackgroundTick
    \/ TimerFires
    \/ \E i \in SyncIds : SyncReturn(i)
    \/ \E i \in SyncIds : SyncHead(i)
    \/ \E i \in SyncIds : SyncBlob(i)
    \/ \E i \in SyncIds : SyncFetch(i)
    \/ \E i \in SyncIds : SyncDecide(i)
    \/ \E i \in SyncIds : SyncPut(i)
    \/ \E j \in ReaderIds, route \in Routes : HandlerStart(j, route)
    \/ \E j \in ReaderIds : GetHead(j)
    \/ \E j \in ReaderIds : GetBlob(j)
    \/ \E j \in ReaderIds : HandlerReturn(j)
SpecHandlers == BackgroundInit /\ [][HandlersNext]_vars

\* The raw route beside the background sync its first call starts, over an
\* upstream that fails at will until it recovers.  A run of performSync is
\* short beside CHECK_INTERVAL: the clock advances between the runs.  The
\* clock and the timer go on, and every await of a run settles in the end.
\* No run is entered while another is in flight, so none is skipped.
ReadyTick ==
    /\ \A i \in SyncIds : sync[i].pc = "idle"
    /\ BackgroundTick
ReadyNext ==
    \/ ReadyTick
    \/ Recover
    \/ TimerFires
    \/ \E i \in SyncIds : SyncHead(i)
    \/ \E i \in SyncIds : SyncBlob(i)
    \/ \E i \in SyncIds : SyncFetch(i)
    \/ \E i \in SyncIds : SyncDecide(i)
    \/ \E i \in SyncIds : SyncPut(i)
    \/ \E j \in ReaderIds : HandlerStart(j, "api")
    \/ \E j \in ReaderIds : GetHead(j)
    \/ \E j \in ReaderIds : GetBlob(j)
    \/ \E j \in ReaderIds : HandlerReturn(j)
ReadyFair == WF_vars(ReadyTick) /\ WF_vars(TimerFires) /\ RunsSettle
SpecReady == BackgroundInit /\ [][ReadyNext]_vars /\ ReadyFair

\* The synchronizer and the readers of the cache.
SpecCache == SyncInit /\ [][CacheNext]_vars

\* Every operation of the cache store, called by itself.
StoreNext ==
    \/ Tick
    \/ \E data \in AWSIPRanges : SetStart(data)
    \/ SetPut
    \/ \E j \in ReaderIds : GetStart(j)
    \/ \E j \in ReaderIds : GetHead(j)
    \/ \E j \in ReaderIds : GetBlob(j)
    \/ \E j \in ReaderIds : GetReturn(j)
    \/ \E j \in ReaderIds : VersionStart(j)
    \/ \E j \in ReaderIds : VersionHead(j)
    \/ \E j \in ReaderIds : VersionBlob(j)
    \/ \E j \in ReaderIds : InfoStart(j)
    \/ \E j \in ReaderIds : InfoHead(j)
    \/ \E j \in ReaderIds : InfoBlob(j)
    \/ \E j \in ReaderIds : ReadReturn(j)
    \/ ClearStart
    \/ ClearDel
StoreInit == now = 0 /\ CacheIdle /\ limiters = RouteLimiters /\ LimiterIdle /\ UtilIdle
SpecStore == StoreInit /\ [][StoreNext]_vars

\* One limiter made by createRateLimit with any options.
LimiterInit ==
    /\ now = 0
    /\ CacheIdle
    /\ \E ss \in BOOLEAN, sf \in BOOLEAN, b \in BOOLEAN :
          limiters = [l \in {"custom"} |-> Options(MaxWindow, MaxLimit, ss, sf, b)]
    /\ LimiterIdle /\ UtilIdle
SpecLimiter == LimiterInit /\ [][LimiterNext]_vars

\* One limiter that counts every request, with any skip options, in two
\* runs that start with an empty store.
TwoRunsInit(left, right) ==
    /\ now = 0
    /\ CacheIdle
    /\ \E ss \in BOOLEAN, sf \in BOOLEAN :
          limiters = [l \in {"custom"} |-> Options(MaxWindow, MaxLimit, ss, sf, FALSE)]
    /\ LimiterIdle
    /\ SchedIdle /\ upstreamSilent = FALSE /\ upstreamRecovered = FALSE /\ syncStarted = FALSE
    /\ timeoutId = None /\ timeouts = {} /\ history = << >> /\ filtering = None
    /\ lastClear = None
    /\ runs = [r \in {left, right} |-> FreshRun]
SweptInit == TwoRunsInit("swept", "unswept")
SpecSwept == SweptInit /\ [][SweptNext]_vars

IsolatedInit == TwoRunsInit("shared", "alone")
SpecIsolated == IsolatedInit /\ [][IsolatedNext]_vars

\* One counting limiter and external clients identified by their headers.
ClientsInit ==
    /\ now = 0
    /\ CacheIdle
    /\ limiters = [l \in {"custom"} |-> Options(MaxWindow, MaxLimit, FALSE, FALSE, TRUE)]
    /\ LimiterIdle /\ UtilIdle
SpecClients == ClientsInit /\ [][ClientsNext]_vars

\* One counting limiter that bypasses internal requests.
SpecClassify == ClientsInit /\ [][ClassifyNext]_vars

\* One function wrapped by debounce.
DebounceInit == now = 0 /\ CacheIdle /\ limiters = RouteLimiters /\ LimiterIdle /\ UtilIdle
SpecDebounce == DebounceInit /\ [][DebounceNext]_vars

\* One call of filterPrefixes on any list and any filters.
FilterInit ==
    /\ now = 0
    /\ CacheIdle
    /\ limiters = RouteLimiters
    /\ LimiterIdle
    /\ SchedIdle /\ upstreamSilent = FALSE /\ upstreamRecovered = FALSE /\ syncStarted = FALSE
    /\ timeoutId = None /\ timeouts = {} /\ history = << >> /\ lastClear = None /\ runs = None
    /\ filtering \in {Some(FilterCall(p, f, None)) : p \in PrefixLists, f \in FilterSets}
SpecFilter == FilterInit /\ [][FilterNext]_vars

\* The three limiters of the module over their common store.
RoutesInit == now = 0 /\ CacheIdle /\ limiters = RouteLimiters /\ LimiterIdle /\ UtilIdle
SpecRoutes == RoutesInit /\ [][RoutesNext]_vars

\* The search route's limiter and the client of the scenario.
ScenarioInit ==
    /\ now = 0
    /\ CacheIdle
    /\ limiters = [l \in {"search"} |-> searchRateLimit]
    /\ LimiterIdle /\ UtilIdle
SpecScenario == ScenarioInit /\ [][ScenarioNext]_vars

(***************************************************************************)
(* The claims.                                                             *)
(***************************************************************************)

\* C1: single-flight.  At most one performSync invocation is between the
\* start of its check and the end of its write, isRunning is set exactly
\* while there is one, and an invocation that starts while another is in
\* flight is skipped: it changes neither tier nor the flag, and it never
\* goes on to check, fetch or write.
AtMostOneInFlight ==
    /\ Cardinality({i \in SyncIds : InFlight(i)}) <= 1
    /\ isRunning <=> \E i \in SyncIds : InFlight(i)
StartWhileRunningIsSkipped ==
    \A i \in SyncIds :
       /\ (sync[i].pc = "idle" /\ sync'[i].pc # "idle"
              /\ \E k \in SyncIds \ {i} : InFlight(k))
          => /\ sync'[i].pc = "skipped"
             /\ UNCHANGED << blob, memoryCache, isRunning >>
       /\ sync[i].pc = "skipped" => sync'[i].pc \in {"skipped", "idle"}
C1_SingleFlight == []AtMostOneInFlight /\ [][StartWhileRunningIsSkipped]_vars
C1_Witness ==
    \E i, k \in SyncIds : sync[i].pc = "skipped" /\ sync[k].pc = "put"

\* C2: read-your-writes.  A getCachedData that started after the last
\* setCachedData(S) returned, with no set or clear begun since, returns the
\* payload of S (stated for a read within the max-age of S only).
C2_ReadYourWrites ==
    \A j \in ReaderIds :
       (/\ reader[j].pc = "done" /\ reader[j].afterSet /\ lastWrite # None
        /\ reader[j].at - lastWrite[1].timestamp < CACHE_DURATION)
       => reader[j].ret = Some(lastWrite[1].data)

\* C3, as claimed: a counted request of a limiter without skip options is
\* denied only before the instant windowResetAt of its client's record: from
\* now >= windowResetAt on it is allowed again.
NoSkip(l) == ~limiters[l].skipSuccessfulRequests /\ ~limiters[l].skipFailedRequests
Denied == lastResponse.status = 429
DeniedRecord == Rec(getClientId(lastResponse.request), store[getClientId(lastResponse.request)])
DeniedOnlyInLiveWindow ==
    (Denied /\ NoSkip(lastResponse.limiter))
    => /\ store[getClientId(lastResponse.request)] # NoRecord
       /\ now <= DeniedRecord.resetTime
       /\ DeniedRecord.count >= limiters[lastResponse.limiter].maxRequests
Live(c) == store[c] # NoRecord /\ now <= Rec(c, store[c]).resetTime
AdmissionCounts ==
    \A l \in DOMAIN limiters :
       NoSkip(l) =>
          /\ \A request \in Requests :
                LET c == getClientId(request) IN
                (~Bypass(l, request)
                   /\ inflight' = Started(Invocation(l, request, FALSE, store'[c])))
                => IF Live(c)
                   THEN /\ store'[c] = store[c]
                        /\ Rec(c, store[c]).count < limiters[l].maxRequests
                        /\ Rec(c, store[c])'.count = Rec(c, store[c]).count + 1
                   ELSE /\ store'[c] = now + limiters[l].windowMs
                        /\ Rec(c, store[c])'.count = 1
          /\ \A c \in ClientIds :
                (/\ store[c] # NoRecord /\ store'[c] = store[c]
                 /\ BagCardinality(inflight') <= BagCardinality(inflight))
                => Rec(c, store[c])'.count = Rec(c, store[c]).count
Allowance(l, c) ==
    IF NeedsFreshRecord(c, now) THEN limiters[l].maxRequests
    ELSE Max(0, limiters[l].maxRequests - Rec(c, store[c]).count)
WindowEnd(l, c) ==
    IF NeedsFreshRecord(c, now) THEN now + limiters[l].windowMs
    ELSE Rec(c, store[c]).resetTime
RoutesIndependent ==
    \A l \in DOMAIN limiters, request \in Requests :
       inflight' = Started(Invocation(l, request, FALSE, store'[getClientId(request)]))
       => \A other \in DOMAIN limiters \ {l} :
             /\ Allowance(other, getClientId(request))' = Allowance(other, getClientId(request))
             /\ WindowEnd(other, getClientId(request))' = WindowEnd(other, getClientId(request))
C4_RoutesIndependent == [][RoutesIndependent]_vars

\* C5: expiry and round trip.  A getCachedData that started after the last
\* setCachedData(S) returned at time t, with no set or clear begun since,
\* returns the payload of S when it reads the clock at t' < t + D and absent
\* when t' >= t + D.
C5_ExpiryRoundTrip ==
    \A j \in ReaderIds :
       (reader[j].pc = "done" /\ reader[j].afterSet /\ lastWrite # None)
       => IF reader[j].at < lastWrite[1].timestamp + CACHE_DURATION
          THEN reader[j].ret = Some(lastWrite[1].data)
          ELSE reader[j].ret = None

\* C6: when the upstream fetch fails, shouldUpdate returns needsUpdate = FALSE
\* without remote data and with a reason that records the error, performSync
\* ends with the flag cleared, and no step of that sync changes a tier.
FailureReasons == {"Failed to fetch initial data", "Failed to check for updates"}
FailedFetchReported ==
    \A i \in SyncIds :
       sync[i].failed
       => /\ sync[i].pc = "decide"
          /\ ~sync[i].result.needsUpdate
          /\ sync[i].result.remoteData = None
          /\ sync[i].result.reason[1] \in FailureReasons
          /\ sync[i].result.reason[2] # ""
FailedSyncKeepsTiers ==
    \A i \in SyncIds :
       /\ (sync[i].pc \in {"idle", "head", "blob", "fetch"} /\ sync'[i] # sync[i])
          => UNCHANGED << blob, memoryCache >>
       /\ (sync[i].pc = "decide" /\ sync[i].failed /\ sync'[i] # sync[i])
          => /\ sync'[i].pc = "idle"
             /\ ~isRunning'
             /\ UNCHANGED << blob, memoryCache >>
C6_FetchFailureKeepsCache == []FailedFetchReported /\ [][FailedSyncKeepsTiers]_vars
C6_Witness ==
    \E i \in SyncIds :
       /\ sync[i].failed /\ sync[i].cached # None
       /\ blob # None /\ memoryCache # None

\* C7: after a sync that found a cached snapshot and a different remote
\* version (the write's reason is "AWS data updated"), the cache serves the
\* remote version: a getCachedData that started after that write returned,
\* with no set or clear begun since and within the max-age, returns the
\* payload that sync wrote, whose capturedAt is the time of the sync.
C7_UpdateServed ==
    \A j \in ReaderIds :
       (/\ reader[j].pc = "done" /\ reader[j].afterSet /\ lastWrite # None
        /\ lastWrite[1].reason = "AWS data updated"
        /\ reader[j].at < lastWrite[1].timestamp + CACHE_DURATION)
       => /\ reader[j].ret = Some(lastWrite[1].data)
          /\ lastWrite[1].timestamp <= reader[j].at

\* C8: a request classified exempt (bypassInternal on and the predicate
\* true) only ever awaits its handler as a bypassing invocation that holds no
\* record, the response it gets is the handler's and never a 429, and the
\* steps that start and settle it leave the store and every record unchanged.
ClassifiedExempt(l, request) ==
    limiters[l].bypassInternal /\ isInternalRequest(request)
ExemptNeverDenied ==
    /\ (lastResponse # NoResponse
          /\ ClassifiedExempt(lastResponse.limiter, lastResponse.request))
       => lastResponse.exempt /\ lastResponse.status # 429
    /\ \A v \in BagToSet(inflight) :
          ClassifiedExempt(v.limiter, v.request) => v.exempt /\ v.record = NoRecord
ExemptLeavesTable ==
    \A v \in BagToSet(inflight) \cup BagToSet(inflight') :
       (ClassifiedExempt(v.limiter, v.request)
          /\ CopiesIn(v, inflight') # CopiesIn(v, inflight))
       => UNCHANGED << store, heap >>
C8_ExemptBypasses == []ExemptNeverDenied /\ [][ExemptLeavesTable]_vars
C8_Witness ==
    /\ lastResponse.exempt /\ lastResponse.status = 200
    /\ ClassifiedExempt(lastResponse.limiter, lastResponse.request)
    /\ LET c == getClientId(lastResponse.request) IN
       /\ Live(c)
       /\ Rec(c, store[c]).count >= limiters[lastResponse.limiter].maxRequests

\* C9: every record's count is >= 0 in every reachable state.
C9_CountNonNegative == \A x \in heap : x.count >= 0

\* C10, as claimed: with cached and remote version metadata identical,
\* shouldUpdate returns needsUpdate = FALSE when the cache age is < F and
\* needsUpdate = TRUE with the age reason when the cache age is >= F.
SameVersion(cached, doc) ==
    doc.createDate = cached.createDate /\ doc.syncToken = cached.syncToken
FetchSettles(i) == sync[i].pc = "fetch" /\ sync'[i].pc = "decide"
ForceAtAgeF ==
    \A i \in SyncIds :
       (/\ FetchSettles(i) /\ ~sync'[i].failed /\ sync[i].cached # None
        /\ SameVersion(sync[i].cached[1], upstream))
       => IF now - sync[i].cached[1].timestamp < FORCE_REFRESH_INTERVAL
          THEN ~sync'[i].result.needsUpdate
          ELSE /\ sync'[i].result.needsUpdate
               /\ sync'[i].result.reason[1] = "Force refresh due to cache age"
C10_ForceAtAgeF == [][ForceAtAgeF]_vars

\* C10, amended: getCachedDataWithVersion reports a snapshot older than D as
\* absent; with no cached snapshot reported and a valid remote payload
\* shouldUpdate returns needsUpdate = TRUE with the reason "No cached data
\* found"; with cached and remote version metadata identical it returns
\* needsUpdate = FALSE when the cache age at the check is <= F (age F
\* included) and needsUpdate = TRUE with the age reason and the remote
\* payload only when that age is > F.
ForceBeyondAgeF ==
    \A i \in SyncIds :
       /\ (sync[i].pc \in {"head", "blob"} /\ sync'[i].pc = "fetch"
             /\ sync'[i].cached # None)
          => now - sync'[i].cached[1].timestamp <= CACHE_DURATION
       /\ (FetchSettles(i) /\ ~sync'[i].failed /\ sync[i].cached = None)
          => /\ sync'[i].result.needsUpdate
             /\ sync'[i].result.reason[1] = "No cached data found"
       /\ (/\ FetchSettles(i) /\ ~sync'[i].failed /\ sync[i].cached # None
           /\ SameVersion(sync[i].cached[1], upstream))
          => IF now - sync[i].cached[1].timestamp <= FORCE_REFRESH_INTERVAL
             THEN /\ ~sync'[i].result.needsUpdate
                  /\ sync'[i].result.reason[1] = "Data is up to date"
             ELSE /\ sync'[i].result.needsUpdate
                  /\ sync'[i].result.reason[1] = "Force refresh due to cache age"
                  /\ sync'[i].result.remoteData = Some(upstream)
C10_ForceBeyondAgeF == [][ForceBeyondAgeF]_vars
C10_Witness ==
    \E i \in SyncIds :
       /\ sync[i].pc = "decide" /\ ~sync[i].failed /\ sync[i].cached # None
       /\ sync[i].result.cacheAge = FORCE_REFRESH_INTERVAL
       /\ ~sync[i].result.needsUpdate

\* C11: with no snapshot in the blob and none in memory the cache read of
\* shouldUpdate reports no cached data, and when the upstream fetch then
\* delivers a valid payload shouldUpdate returns needsUpdate = TRUE, the
\* fetched payload as remoteData, and the reason "No cached data found".
EmptyTiersReadAbsent ==
    \A i \in SyncIds :
       (sync[i].pc \in {"head", "blob"} /\ sync'[i].pc = "fetch"
          /\ blob = None /\ memoryCache = None)
       => sync'[i].cached = None
NoCacheNeedsUpdate ==
    \A i \in SyncIds :
       (FetchSettles(i) /\ sync[i].cached = None /\ ~sync'[i].failed)
       => /\ sync'[i].result.needsUpdate
          /\ sync'[i].result.remoteData = Some(upstream)
          /\ sync'[i].result.reason = << "No cached data found", "" >>
C11_NoCacheNeedsUpdate == [][EmptyTiersReadAbsent /\ NoCacheNeedsUpdate]_vars
C11_Witness ==
    \E i \in SyncIds :
       /\ sync[i].pc = "decide" /\ sync[i].cached = None /\ ~sync[i].failed
       /\ blob = None /\ memoryCache = None
       /\ sync[i].result.needsUpdate /\ sync[i].result.remoteData # None

\* C12: a response that misses any of syncToken, createDate, prefixes or
\* ipv6_prefixes makes fetchAWSIPRanges throw, a sync whose fetch failed holds
\* nothing to write, and in every reachable state the snapshot in the blob,
\* the snapshot in memory and the snapshot a setCachedData is writing carry
\* all four fields.
Complete4(doc) == \A f \in DocFields : doc[f] # Missing
InvalidPayloadThrows ==
    \A doc \in AWSIPRanges, f \in DocFields :
       LET r == fetchAWSIPRanges([kind |-> "json", body |-> Blanked(doc, f)]) IN
       r.threw /\ r.data = None /\ r.error = "Invalid AWS IP ranges response structure"
TiersHoldValidSnapshots ==
    /\ blob # None => Complete4(blob[1].data)
    /\ memoryCache # None => Complete4(memoryCache[1].data)
    /\ \A i \in SyncIds :
          /\ sync[i].cacheData # None => Complete4(sync[i].cacheData[1].data)
          /\ sync[i].failed => sync[i].result.remoteData = None
C12_InvalidPayloadNeverCached == InvalidPayloadThrows /\ TiersHoldValidSnapshots
C12_Witness ==
    /\ sync[1].failed
    /\ sync[1].result.reason[2] = "Invalid AWS IP ranges response structure"
    /\ blob # None /\ memoryCache # None

\* C13: when getCachedData returns, its value is the payload of the blob
\* snapshot if the blob tier was readable and holds a snapshot not older than
\* D; otherwise the payload of the memory snapshot if memory holds one not
\* older than D; otherwise absent.  No returned payload is older than D.
NotOlderThanD(c) == c # None /\ now - c[1].timestamp <= CACHE_DURATION
TierOrder ==
    \A j \in ReaderIds :
       (reader[j].pc # "done" /\ reader'[j].pc = "done")
       => /\ reader'[j].at = now
          /\ reader'[j].ret =
                IF reader'[j].readable /\ NotOlderThanD(blob)
                THEN Some(blob[1].data)
                ELSE IF NotOlderThanD(memoryCache)
                     THEN Some(memoryCache[1].data)
                     ELSE None
C13_TierOrder == [][TierOrder]_vars
C13_Witness ==
    \E j \in ReaderIds :
       /\ reader[j].pc = "done" /\ ~reader[j].readable
       /\ blob # None /\ now - blob[1].timestamp = CACHE_DURATION
       /\ reader[j].at = now
       /\ reader[j].ret # None /\ reader[j].ret # Some(blob[1].data)

\* C14: no operation of the cache store throws or rejects, whatever the blob
\* tier does: no read has thrown, no setCachedData has thrown, no clearCache
\* has thrown.  A read that could not read the blob answers from memory alone;
\* a setCachedData whose put failed and a clearCache whose del failed return
\* with memoryCache as they set it and the blob as it was.
NeverThrows ==
    /\ \A j \in ReaderIds : ~reader[j].threw
    /\ lastWrite # None => ~lastWrite[1].threw
    /\ clearPc # "threw"
ReadDone == {"done", "verDone", "infoDone"}
FailingBlobIsAbsent ==
    /\ \A j \in ReaderIds :
          (reader[j].pc \notin ReadDone /\ reader'[j].pc \in ReadDone
             /\ ~reader'[j].readable)
          => reader'[j].ret =
                CASE reader'[j].pc = "done" ->
                        IF NotOlderThanD(memoryCache) THEN Some(memoryCache[1].data) ELSE None
                  [] reader'[j].pc = "verDone" ->
                        IF NotOlderThanD(memoryCache) THEN memoryCache ELSE None
                  [] OTHER ->
                        IF memoryCache # None
                        THEN Some(Info(memoryCache[1], now, "memory"))
                        ELSE Some(NoInfo)
    /\ (sync[1].pc = "set" /\ sync'[1].pc = "idle")
       => /\ UNCHANGED memoryCache
          /\ blob' \in {blob, sync[1].cacheData}
          /\ lastWrite' # None
    /\ (clearPc = "del" /\ clearPc' # "del")
       => /\ UNCHANGED memoryCache
          /\ blob' \in {blob, None}
          /\ clearPc' = "idle"
C14_StoreNeverThrows == []NeverThrows /\ [][FailingBlobIsAbsent]_vars
C14_Witness ==
    \E j \in ReaderIds :
       /\ reader[j].pc = "infoDone" /\ ~reader[j].readable
       /\ reader[j].ret = Some(NoInfo)
       /\ blob # None /\ lastWrite # None
       /\ blob[1].data # lastWrite[1].data

\* C15: a snapshot leaves a tier only through a later setCachedData or a
\* clearCache.  The memory snapshot changes only in the step in which a
\* setCachedData or a clearCache begins, the blob snapshot only in the step in
\* which the put of a setCachedData or the del of a clearCache settles: no step
\* of a read changes or empties a tier.
SetBegins == \E i \in SyncIds : sync[i].pc = "idle" /\ sync'[i].pc \in {"set", "put"}
SetSettles == \E i \in SyncIds : sync[i].pc \in {"set", "put"} /\ sync'[i].pc = "idle"
ClearBegins == clearPc = "idle" /\ clearPc' = "del"
ClearSettles == clearPc = "del" /\ clearPc' # "del"
OnlySetOrClearRemoves ==
    /\ (memoryCache # None /\ memoryCache' # memoryCache) => (SetBegins \/ ClearBegins)
    /\ (blob # None /\ blob' # blob) => (SetSettles \/ ClearSettles)
C15_OnlySetOrClearRemoves == [][OnlySetOrClearRemoves]_vars

\* C16: for a limiter without skip options the test of count against
\* maxRequests and the increment are one step, also while handlers of other
\* requests of the same client are suspended: a request admitted meanwhile
\* finds count below maxRequests and leaves it one higher, so no record ever
\* counts more than maxRequests, and every suspended request is counted in
\* the record it holds.
HeldBy(x) ==
    BagCardinality([v \in {w \in BagToSet(inflight) :
                              /\ ~w.exempt
                              /\ getClientId(w.request) = x.clientId
                              /\ w.record = x.resetTime}
                    |-> CopiesIn(v, inflight)])
WindowNeverOverfull ==
    \A l \in DOMAIN limiters :
       NoSkip(l) => \A x \in heap : HeldBy(x) <= x.count /\ x.count <= limiters[l].maxRequests
OverlappingAdmissionCounts ==
    \A l \in DOMAIN limiters, request \in Requests :
       LET c == getClientId(request)
           before == IF Live(c) THEN Rec(c, store[c]).count ELSE 0
       IN (/\ NoSkip(l) /\ ~Bypass(l, request)
           /\ \E w \in BagToSet(inflight) : ~w.exempt /\ getClientId(w.request) = c
           /\ inflight' = Started(Invocation(l, request, FALSE, store'[c])))
          => /\ before < limiters[l].maxRequests
             /\ Rec(c, store[c])'.count = before + 1
C16_AtomicAdmission == []WindowNeverOverfull /\ [][OverlappingAdmissionCounts]_vars
C16_Witness ==
    \E v \in BagToSet(inflight) :
       /\ ~v.exempt /\ NoSkip(v.limiter)
       /\ CopiesIn(v, inflight) = 2
       /\ v.record = store[getClientId(v.request)]
       /\ Rec(getClientId(v.request), v.record).count = limiters[v.limiter].maxRequests

\* C17: with skipSuccessfulRequests or skipFailedRequests every admitted
\* request is counted on admission (only its completion with the skipped
\* outcome takes the count back): the step that admits a request leaves its
\* client's record one higher than the count the request found.
SkipCountsOnAdmission ==
    \A l \in DOMAIN limiters, request \in Requests :
       LET c == getClientId(request)
           before == IF Live(c) THEN Rec(c, store[c]).count ELSE 0
       IN (/\ ~NoSkip(l) /\ ~Bypass(l, request)
           /\ inflight' = Started(Invocation(l, request, FALSE, store'[c])))
          => Rec(c, store[c])'.count = before + 1
C17_SkipCountsOnAdmission == [][SkipCountsOnAdmission]_vars

\* C18: every response returned through a limiter carries X-RateLimit-Limit
\* (maxRequests), X-RateLimit-Remaining (between 0 and maxRequests),
\* X-RateLimit-Reset and X-RateLimit-Window (windowMs in seconds); a denied
\* request has status 429, Remaining 0 and a Retry-After of 0 or more seconds.
ResponseHeaders ==
    (lastResponse # NoResponse /\ ~lastResponse.threw)
    => LET o == limiters[lastResponse.limiter] IN
       /\ lastResponse.limit = o.maxRequests
       /\ lastResponse.remaining \in 0..o.maxRequests
       /\ lastResponse.reset >= 0
       /\ lastResponse.window = o.windowMs \div UnitsPerSecond
       /\ lastResponse.status = 429
             => lastResponse.remaining = 0 /\ lastResponse.retryAfter >= 0
C18_ResponseHeaders == ResponseHeaders

\* C19: with the search limiter (window 60 s, max 10) an external client with
\* no record that sends requests at 0 s, 1 s, ..., 9 s has all ten admitted
\* into the window that ends at 60 s; its 11th request at 9.5 s is denied
\* with status 429 and a retryAfter of the time left to the window's end
\* (50.5 s, rounded up to whole seconds); its 12th request at 61 s is admitted
\* as the first one of a fresh window that ends at 61 s + 60 s.
ScenarioAdmits == BagCardinality(inflight') = BagCardinality(inflight) + 1
ScenarioDenies == now' = now /\ lastResponse'.status = 429
ScenarioRecord == Rec(ScenarioClient, store[ScenarioClient])
ScenarioAsClaimed ==
    LET w == searchRateLimit.windowMs
        left == w - now
    IN (ScenarioAdmits \/ ScenarioDenies) =>
       /\ \A k \in 0..9 :
             now = k * UnitsPerSecond
             => /\ ScenarioAdmits
                /\ store'[ScenarioClient] = w
                /\ ScenarioRecord'.count = k + 1
       /\ now = EleventhAt
             => /\ ScenarioDenies
                /\ lastResponse'.retryAfter * UnitsPerSecond - left \in 0..(UnitsPerSecond - 1)
                /\ lastResponse'.retryAfter \in 50..51
                /\ store'[ScenarioClient] = w
                /\ ScenarioRecord'.count = searchRateLimit.maxRequests
       /\ (now = TwelfthAt /\ store[ScenarioClient] # now + w)
             => /\ ScenarioAdmits
                /\ store'[ScenarioClient] = now + w
                /\ ScenarioRecord'.count = 1
C19_Scenario == [][ScenarioAsClaimed]_vars
C19_Witness ==
    /\ now > TwelfthAt
    /\ store[ScenarioClient] = TwelfthAt + searchRateLimit.windowMs
    /\ ScenarioRecord.count = 1

\* C20: triggerSync answers success = false only if performSync threw; a run
\* of triggerSync that finds no update needed answers success = true; a call
\* of triggerSync while another sync is in flight changes neither the flag
\* nor a cache tier and answers success = true without having run.
TriggerFailsOnlyOnThrow ==
    \A i \in SyncIds :
       (sync[i].ret # None /\ ~sync[i].ret[1].result.success)
       => sync[i].ret[1].outcome = "threw"
TriggerReturns(i) ==
    sync[i].caller = "api" /\ sync[i].pc # "idle" /\ sync'[i].pc = "idle"
NoUpdateIsSuccess ==
    \A i \in SyncIds :
       (TriggerReturns(i) /\ sync[i].pc = "decide" /\ ~sync[i].result.needsUpdate)
       => /\ sync'[i].ret # None
          /\ sync'[i].ret[1].result.success
          /\ sync'[i].ret[1].ran
SkippedIsNoOp ==
    \A i \in SyncIds :
       /\ (sync[i].caller = "api" /\ sync[i].pc = "idle" /\ isRunning /\ sync'[i] # sync[i])
          => /\ sync'[i].pc = "skipped"
             /\ UNCHANGED << isRunning, blob, memoryCache, lastWrite >>
             /\ \A k \in SyncIds \ {i} : sync'[k] = sync[k]
       /\ (TriggerReturns(i) /\ sync[i].pc = "skipped")
          => /\ sync'[i].ret # None
             /\ sync'[i].ret[1].result.success
             /\ ~sync'[i].ret[1].ran
             /\ UNCHANGED << isRunning, blob, memoryCache, lastWrite >>
             /\ \A k \in SyncIds \ {i} : sync'[k] = sync[k]
C20_TriggerSync ==
    []TriggerFailsOnlyOnThrow /\ [][NoUpdateIsSuccess /\ SkippedIsNoOp]_vars
C20_Witness ==
    \E i \in SyncIds, k \in SyncIds :
       /\ i # k
       /\ InFlight(k)
       /\ sync[i].ret # None
       /\ sync[i].ret[1].result.success
       /\ ~sync[i].ret[1].ran

\* C35: triggerSync never answers success = false: every return of triggerSync
\* carries success = true and the message 'Sync completed successfully', also
\* when the upstream fetch of its run failed and nothing was written, when the
\* cache write of its run failed, and when the call was skipped because
\* another sync was in flight.
SuccessAnswer == [success |-> TRUE, message |-> "Sync completed successfully"]
TriggerNeverFails ==
    \A i \in SyncIds : sync[i].ret # None => sync[i].ret[1].result = SuccessAnswer
FailedFetchIsSuccess ==
    \A i \in SyncIds :
       (TriggerReturns(i) /\ sync[i].pc = "decide" /\ sync[i].failed)
       => /\ sync'[i].ret # None
          /\ sync'[i].ret[1].result = SuccessAnswer
          /\ sync'[i].ret[1].failed
          /\ UNCHANGED << blob, memoryCache, lastWrite >>
FailedWriteIsSuccess ==
    \A i \in SyncIds :
       (TriggerReturns(i) /\ sync[i].pc = "put" /\ blob' # sync[i].cacheData)
       => /\ sync'[i].ret # None
          /\ sync'[i].ret[1].result = SuccessAnswer
          /\ sync'[i].ret[1].failed
SkippedIsSuccess ==
    \A i \in SyncIds :
       (TriggerReturns(i) /\ sync[i].pc = "skipped")
       => /\ sync'[i].ret # None
          /\ sync'[i].ret[1].result = SuccessAnswer
          /\ ~sync'[i].ret[1].failed
C35_TriggerNeverFails ==
    []TriggerNeverFails
    /\ [][FailedFetchIsSuccess /\ FailedWriteIsSuccess /\ SkippedIsSuccess]_vars
C35_Witness ==
    \E i \in SyncIds :
       /\ sync[i].caller = "api"
       /\ sync[i].ret # None
       /\ sync[i].ret[1].ran
       /\ sync[i].ret[1].failed
       /\ sync[i].ret[1].result = SuccessAnswer
       /\ blob = None
       /\ lastWrite # None

\* C36: fixed window, for a limiter with maxRequests >= 1: a denied request
\* leaves the store, the client's record and its count as they were and is
\* made within the record's window; a request admitted within a live window
\* keeps the record and its resetTime and changes its count only; the
\* resetTime the store holds for a client changes only once that window is
\* over, so no request during a lockout postpones its end.
LiveWindow(c) == store[c] # NoRecord /\ now <= store[c]
DenyStep(c) ==
    /\ lastResponse' # lastResponse
    /\ lastResponse'.status = 429
    /\ getClientId(lastResponse'.request) = c
AdmitStep(c, v) ==
    /\ v \in BagToSet(inflight')
    /\ ~v.exempt
    /\ getClientId(v.request) = c
    /\ CopiesIn(v, inflight') > CopiesIn(v, inflight)
DeniedLeavesRecord ==
    \A c \in ClientIds :
       DenyStep(c) => /\ LiveWindow(c)
                      /\ UNCHANGED << store, heap, inflight, now >>
AdmittedChangesOnlyCount ==
    \A c \in ClientIds : \A v \in BagToSet(inflight') :
       (AdmitStep(c, v) /\ LiveWindow(c))
       => LET o == limiters[v.limiter]
              before == Rec(c, store[c])
          IN /\ UNCHANGED store
             /\ v.record = store[c]
             /\ \A x \in heap' : (x.clientId # c \/ x.resetTime # store[c]) => x \in heap
             /\ \E x \in heap' :
                   /\ x.clientId = c
                   /\ x.resetTime = before.resetTime
                   /\ x.count = IF ~o.skipSuccessfulRequests /\ ~o.skipFailedRequests
                                THEN before.count + 1 ELSE before.count
ResetTimeFixed ==
    \A c \in ClientIds :
       /\ (store[c] # NoRecord /\ store'[c] # store[c]) => now > store[c]
       /\ (store'[c] # NoRecord /\ store'[c] # store[c])
          => \E l \in DOMAIN limiters : store'[c] = now + limiters[l].windowMs
C36_FixedWindow ==
    [][/\ (\A l \in DOMAIN limiters : limiters[l].maxRequests >= 1)
          => (DeniedLeavesRecord /\ AdmittedChangesOnlyCount /\ ResetTimeFixed)]_vars
C36_Witness ==
    \E c \in ClientIds :
       /\ lastResponse.status = 429
       /\ getClientId(lastResponse.request) = c
       /\ now = store[c]
       /\ Rec(c, store[c]).count = MaxLimit
       /\ \E v \in BagToSet(inflight) : ~v.exempt /\ getClientId(v.request) = c

\* C21: in a long-lived process the first call of startBackgroundSync calls
\* performSync at once and creates the timer, later calls do nothing, and the
\* timer calls performSync once at the end of every CHECK_INTERVAL since its
\* creation; with VERCEL set every call of startBackgroundSync calls
\* performSync exactly once and no timer is ever created.
PeriodsOver ==
    IF now < syncInterval[1].due
    THEN (now - syncInterval[1].created) \div CHECK_INTERVAL
    ELSE (now - syncInterval[1].created) \div CHECK_INTERVAL - 1
ScheduleKept ==
    IF VERCEL
    THEN syncInterval = None /\ syncCalls = startCalls
    ELSE IF syncInterval = None
    THEN startCalls = 0 /\ syncCalls = 0
    ELSE /\ startCalls > 0
         /\ syncInterval[1].due \in now..(now + CHECK_INTERVAL)
         /\ (syncInterval[1].due - syncInterval[1].created) % CHECK_INTERVAL = 0
         /\ syncCalls = 1 + PeriodsOver
EntersOneSync ==
    \E i \in SyncIds :
       /\ sync[i].pc = "idle"
       /\ sync'[i].pc \in {"head", "skipped"}
       /\ \A k \in SyncIds \ {i} : sync'[k] = sync[k]
StartRunsAtOnce ==
    (startCalls' = startCalls + 1)
    => IF ~VERCEL /\ syncInterval # None
       THEN UNCHANGED << sync, isRunning, syncInterval, syncCalls >>
       ELSE /\ EntersOneSync
            /\ syncCalls' = syncCalls + 1
            /\ VERCEL => syncInterval' = None
            /\ ~VERCEL => syncInterval' = Some(Timer(now, now + CHECK_INTERVAL))
C21_BackgroundSchedule == []ScheduleKept /\ [][StartRunsAtOnce]_vars
C21_Witness ==
    /\ ~VERCEL
    /\ startCalls = 2
    /\ syncCalls = 3
    /\ now = syncInterval[1].created + 2 * CHECK_INTERVAL

\* C22: every sync that has started ends: its caller is idle again and
\* isRunning is false again, whether the run updates the cache, finds
\* nothing to do, fails to fetch or fails to write, and also when the
\* upstream never answers (the fetch is aborted by its timeout); a call of
\* performSync that was skipped returns as well.
C22_SyncEnds ==
    /\ (isRunning ~> ~isRunning)
    /\ \A i \in SyncIds : (sync[i].pc # "idle") ~> (sync[i].pc = "idle")
C22_Witness ==
    /\ upstreamSilent
    /\ isRunning
    /\ \E i \in SyncIds :
          /\ sync[i].pc = "decide"
          /\ sync[i].failed
          /\ sync[i].result.reason[2] = "The operation was aborted due to timeout"

\* C23: a read handler (raw data, search, export) whose getCachedData
\* returned no snapshot answers with status 503 and a retry delay, and it
\* answers as soon as getCachedData has returned, also while a sync is in
\* flight.
HandlerAnswers(j) == reader[j].route # "" /\ reader[j].pc = "done" /\ reader'[j].pc = "idle"
NotReadySignal ==
    \A j \in ReaderIds :
       (HandlerAnswers(j) /\ reader[j].ret = None)
       => /\ lastResponse'.status = 503
          /\ lastResponse'.retryAfter > 0
NeverWaitsForSync ==
    \A j \in ReaderIds :
       (reader[j].route # "" /\ reader[j].pc = "done") => ENABLED HandlerReturn(j)
C23_NotReady == []NeverWaitsForSync /\ [][NotReadySignal]_vars

\* C24: no caller of a limiter receives an exception: when the wrapped
\* handler throws, the middleware returns a response, for a request that
\* bypasses the limiter as for a counted one.
C24_NoRawException == lastResponse # NoResponse => ~lastResponse.threw

\* C25: a run of the sweep removes from the table every record whose
\* resetTime has passed and leaves every record whose window is still open
\* as it is, whatever requests are in flight: after the sweep the table
\* holds only records with resetTime at or after the present instant.
SweepRuns == now' = now /\ inflight' = inflight /\ lastResponse' = NoResponse
SweepRemovesExpiredOnly ==
    SweepRuns =>
       \A c \in ClientIds :
          /\ (store[c] # NoRecord /\ now > Rec(c, store[c]).resetTime)
                => store'[c] = NoRecord
          /\ (store[c] # NoRecord /\ now <= Rec(c, store[c]).resetTime)
                => /\ store'[c] = store[c]
                   /\ Rec(c, store[c])' = Rec(c, store[c])
          /\ store[c] = NoRecord => store'[c] = NoRecord
          /\ store'[c] # NoRecord => now' <= store'[c]
C25_SweepRemovesExpired == [][SweepRemovesExpiredOnly]_vars
C25_Witness ==
    \E c \in ClientIds, d \in ClientIds :
       /\ store[c] = NoRecord
       /\ \E x \in heap : x.clientId = c /\ now > x.resetTime
       /\ store[d] # NoRecord
       /\ now <= Rec(d, store[d]).resetTime
       /\ lastResponse = NoResponse

\* C26: what getCacheInfo returns describes what getCachedData would serve
\* from the same tiers at the same instant with the blob store behaving the
\* same: exists is false exactly when getCachedData would return absent,
\* and otherwise source, age, syncToken and createDate are those of the
\* snapshot getCachedData would answer from.
InfoSettles(j) == reader[j].pc \in {"infoHead", "infoBlob"} /\ reader'[j].pc = "infoDone"
InfoDescribesServed ==
    \A j \in ReaderIds :
       (InfoSettles(j) /\ reader'[j].ret # None)
       => LET info == reader'[j].ret[1]
              served == Served(reader'[j].readable, now)
          IN /\ info.exists <=> served # None
             /\ info.exists
                   => /\ info.source = served[1].tier
                      /\ info.age = now - served[1].snapshot.timestamp
                      /\ info.syncToken = served[1].snapshot.syncToken
                      /\ info.createDate = served[1].snapshot.createDate
C26_InfoDescribesServed == [][InfoDescribesServed]_vars

\* C27: a counted request is keyed by the first entry of x-forwarded-for,
\* trimmed, when that header is present, else by x-real-ip, else by
\* cf-connecting-ip, else by 'unknown': its admission counts in the record of
\* that key and in no other, and its denial is decided by that record; the
\* requests without any of the three headers all count in the one record of
\* 'unknown'.
FirstEntry(header) ==
    CASE header = " 203.0.113.7 ,198.51.100.9" -> "203.0.113.7"
ClaimedKey(r) ==
    IF r.forwarded # Missing THEN FirstEntry(r.forwarded)
    ELSE IF r.realIp # Missing THEN r.realIp
    ELSE IF r.cfIp # Missing THEN r.cfIp
    ELSE "unknown"
CountOf(c) == IF Live(c) THEN Rec(c, store[c]).count ELSE 0
AdmissionIsKeyed ==
    (BagCardinality(inflight') = BagCardinality(inflight) + 1)
    => LET v == CHOOSE x \in BagToSet(inflight') : CopiesIn(x, inflight') > CopiesIn(x, inflight)
           k == ClaimedKey(v.request)
       IN /\ store'[k] # NoRecord
          /\ v.record = store'[k]
          /\ \E x \in heap' : /\ x.clientId = k
                             /\ x.resetTime = store'[k]
                             /\ x.count = CountOf(k) + 1
          /\ \A c \in ClientIds \ {k} : store'[c] = store[c]
DenialIsKeyed ==
    (lastResponse'.status = 429)
    => LET k == ClaimedKey(lastResponse'.request) IN
       /\ store'[k] # NoRecord
       /\ \E x \in heap' : /\ x.clientId = k
                          /\ x.resetTime = store'[k]
                          /\ x.count >= limiters[lastResponse'.limiter].maxRequests
       /\ \A c \in ClientIds \ {k} : store'[c] = store[c]
C27_ClientKey == [][AdmissionIsKeyed /\ DenialIsKeyed]_vars
C27_Witness ==
    /\ store["unknown"] # NoRecord
    /\ Rec("unknown", store["unknown"]).count = 2
    /\ \E v \in BagToSet(inflight), w \in BagToSet(inflight) :
          /\ v.request.userAgent # w.request.userAgent
          /\ ClaimedKey(v.request) = "unknown"
          /\ ClaimedKey(w.request) = "unknown"
          /\ v.record = store["unknown"]
          /\ w.record = store["unknown"]

\* C28: a request is classified internal exactly when x-internal-request is
\* 'true', or its referer is a URL of the request's own origin or of a host
\* on the internal host list, or its user agent carries Next.js or
\* node-fetch, or it has no referer and its user agent carries neither curl
\* nor Postman; every other request (a foreign referer with a browser user
\* agent, no referer with curl) is counted.
ClaimedInternal(r) ==
    \/ r.internal = "true"
    \/ r.referer \in {"https://ipmapaws.vercel.app/regions", "http://localhost:3000/"}
    \/ r.userAgent \in {"Next.js Middleware", "node-fetch/1.0"}
    \/ r.referer = Missing /\ r.userAgent \notin {"curl/8.5.0", "PostmanRuntime/7.36"}
ClassifiedAsClaimed ==
    /\ (BagCardinality(inflight') = BagCardinality(inflight) + 1)
          => \A v \in BagToSet(inflight') : v.exempt <=> ClaimedInternal(v.request)
    /\ lastResponse'.status = 429 => ~ClaimedInternal(lastResponse'.request)
C28_InternalExactly == [][ClassifiedAsClaimed]_vars

\* C29: func is invoked only at delay after the most recent call of the
\* wrapper and never earlier, with that call's arguments; between two calls
\* of the wrapper less than delay apart func is not invoked; after the last
\* call of a burst func is invoked exactly once, delay after that call.
LastCallBefore(p) == CHOOSE q \in Calls : q < p /\ \A r \in Calls : r < p => r <= q
InvokedAfterDelay ==
    \A p \in Invocations :
       /\ \E q \in Calls : q < p
       /\ history[p].at = history[LastCallBefore(p)].at + DebounceDelay
       /\ history[p].args = history[LastCallBefore(p)].args
       /\ \A r \in Invocations : r < p => r < LastCallBefore(p)
BurstInvokesOnce ==
    \A q \in Calls :
       LET later == {r \in Calls : r > q}
           answered == {p \in Invocations : p > q /\ \A r \in later : p < r}
       IN /\ (later # {} /\ \E r \in later : history[r].at - history[q].at < DebounceDelay)
             => answered = {}
          /\ (later = {} /\ now > history[q].at + DebounceDelay) => Cardinality(answered) = 1
          /\ Cardinality(answered) <= 1
C29_Debounce == InvokedAfterDelay /\ BurstInvokesOnce
C29_Witness ==
    /\ Len(history) = 4
    /\ history[1].kind = "call" /\ history[2].kind = "call" /\ history[3].kind = "call"
    /\ history[1].at < history[2].at /\ history[2].at < history[3].at
    /\ history[3].args # history[2].args
    /\ history[4] = Event("func", history[3].at + DebounceDelay, history[3].args)

\* C30: filterPrefixes returns exactly the input elements, in input order,
\* that satisfy every active filter: a type that includeIPv4 / includeIPv6
\* allow (both on unless set to false), a region in regions when regions is
\* not empty, a service in services when services is not empty, and, when
\* the trimmed searchTerm is not empty, that term contained without regard
\* to case in the element's prefix, region, service or network_border_group;
\* with no filter set it returns all the elements.
FieldContains(field, term) == includes(toLowerCase(Pieces(field)), toLowerCase(term))
ClaimedKept(e, f) ==
    /\ e.type = "ipv4" => f.includeIPv4 # Some(FALSE)
    /\ e.type = "ipv6" => f.includeIPv6 # Some(FALSE)
    /\ (f.regions # None /\ f.regions[1] # << >>)
          => \E i \in DOMAIN f.regions[1] : f.regions[1][i] = e.region
    /\ (f.services # None /\ f.services[1] # << >>)
          => \E i \in DOMAIN f.services[1] : f.services[1][i] = e.service
    /\ (f.searchTerm # None /\ Trim(Pieces(f.searchTerm[1])) # << >>)
          => LET term == Trim(Pieces(f.searchTerm[1])) IN
             \/ FieldContains(e.prefix, term)
             \/ FieldContains(e.region, term)
             \/ FieldContains(e.service, term)
             \/ FieldContains(e.network_border_group, term)
ClaimedResult(call) ==
    LET kept == {i \in DOMAIN call.prefixes : ClaimedKept(call.prefixes[i], call.filters)}
        Nth(k) == CHOOSE i \in kept : Cardinality({j \in kept : j < i}) = k - 1
    IN [k \in 1..Cardinality(kept) |-> call.prefixes[Nth(k)]]
NoFilterSet(f) ==
    /\ f.regions = None /\ f.services = None /\ f.searchTerm = None
    /\ f.includeIPv4 = None /\ f.includeIPv6 = None
C30_FilterExact ==
    (filtering # None /\ filtering[1].result # None)
       => /\ filtering[1].result[1] = ClaimedResult(filtering[1])
          /\ NoFilterSet(filtering[1].filters)
                => filtering[1].result[1] = filtering[1].prefixes

\* C31: a sync whose cache read returned a snapshot with the remote
\* syncToken and createDate, of an age of at most F at the check, writes
\* nothing: shouldUpdate answers needsUpdate = FALSE, performSync ends
\* without a step that changes a tier, so capturedAt stays as it was.  A sync
\* begins a write only when it found no snapshot, a different version, or an
\* age beyond F, and the tiers change in no other step of a sync.
UpToDateNeedsNoUpdate ==
    \A i \in SyncIds :
       (/\ FetchSettles(i) /\ ~sync'[i].failed /\ sync[i].cached # None
        /\ SameVersion(sync[i].cached[1], upstream)
        /\ now - sync[i].cached[1].timestamp <= FORCE_REFRESH_INTERVAL)
       => /\ ~sync'[i].result.needsUpdate
          /\ UNCHANGED << blob, memoryCache >>
NoUpdateWritesNothing ==
    \A i \in SyncIds :
       (sync[i].pc = "decide" /\ sync'[i] # sync[i] /\ ~sync[i].result.needsUpdate)
       => /\ sync'[i].pc = "idle"
          /\ UNCHANGED << blob, memoryCache >>
WriteOnlyOnChangeOrStaleness ==
    /\ \A i \in SyncIds :
          (sync[i].pc = "decide" /\ sync'[i].pc = "put")
          => \/ sync[i].cached = None
             \/ ~SameVersion(sync[i].cached[1], sync[i].result.remoteData[1])
             \/ sync[i].result.cacheAge > FORCE_REFRESH_INTERVAL
    /\ (blob' # blob \/ memoryCache' # memoryCache)
          => \E i \in SyncIds : /\ sync[i].pc \in {"decide", "put"}
                                /\ sync'[i] # sync[i]
                                /\ sync[i].result.needsUpdate
C31_NoWriteWhenUpToDate ==
    [][UpToDateNeedsNoUpdate /\ NoUpdateWritesNothing /\ WriteOnlyOnChangeOrStaleness]_vars
C31_Witness ==
    \E i \in SyncIds :
       /\ sync[i].pc = "decide" /\ ~sync[i].failed /\ sync[i].cached # None
       /\ SameVersion(sync[i].cached[1], upstream)
       /\ sync[i].result.cacheAge = 1
       /\ ~sync[i].result.needsUpdate
       /\ blob # None /\ blob[1].timestamp = now - 1 /\ memoryCache = blob

\* C32: read-through.  When getCachedData is answered by the blob tier, the
\* memory tier holds that blob snapshot afterwards (payload, timestamp,
\* createDate and syncToken) and the blob is as it was; when it is answered
\* by the memory tier neither tier changes; no step of
\* getCachedDataWithVersion or of getCacheInfo changes a tier, whatever they
\* return.
GetAnswers(j) == reader[j].pc \in {"head", "blob"} /\ reader'[j].pc = "done"
ReadThrough ==
    \A j \in ReaderIds :
       GetAnswers(j)
       => LET served == Served(reader'[j].readable, now) IN
          /\ (served # None /\ served[1].tier = "blob")
                => /\ reader'[j].ret = Some(served[1].snapshot.data)
                   /\ memoryCache' = Some(served[1].snapshot)
                   /\ blob' = blob
          /\ (served # None /\ served[1].tier = "memory")
                => /\ reader'[j].ret = Some(served[1].snapshot.data)
                   /\ UNCHANGED << blob, memoryCache >>
OtherReadsChangeNothing ==
    \A j \in ReaderIds :
       (/\ reader'[j].pc # reader[j].pc
        /\ \/ reader[j].pc \in {"verHead", "verBlob", "verDone", "infoHead", "infoBlob", "infoDone"}
           \/ reader'[j].pc \in {"verHead", "infoHead"})
       => UNCHANGED << blob, memoryCache >>
C32_ReadThrough == [][ReadThrough /\ OtherReadsChangeNothing]_vars
C32_Witness ==
    \E j \in ReaderIds :
       /\ reader[j].pc = "done" /\ reader[j].readable
       /\ sync[1].pc = "idle" /\ clearPc = "idle" /\ lastWrite = None
       /\ blob # None /\ memoryCache = blob
       /\ reader[j].ret = Some(blob[1].data)

\* C33: when clearCache returns the memory tier is empty, whether del()
\* succeeded or failed; clearCache goes on to del() whatever the memory tier
\* held; it never throws, with no blob to delete and with a del() that
\* fails alike; and after a clearCache whose del() succeeded a getCachedData
\* that starts once it has returned returns absent.  No setCachedData is
\* in progress or has returned since the clearCache began.
ClearReturns == clearPc = "del" /\ clearPc' # "del"
NoSetSinceClear == lastWrite = None /\ \A i \in SyncIds : sync[i].pc \notin {"set", "put"}
ClearEmptiesMemory == (ClearReturns /\ NoSetSinceClear) => memoryCache' = None
ClearAttemptsDelete == (clearPc = "idle" /\ clearPc' # "idle") => clearPc' = "del"
ClearNeverThrows == ClearReturns => clearPc' = "idle"
GetAfterClearAbsent ==
    \A j \in ReaderIds :
       (/\ GetAnswers(j) /\ reader[j].afterClear
        /\ lastClear # None /\ lastClear[1].deleted /\ NoSetSinceClear)
       => reader'[j].ret = None
C33_ClearCache ==
    [][ClearEmptiesMemory /\ ClearAttemptsDelete /\ ClearNeverThrows
         /\ GetAfterClearAbsent]_vars

\* C34: readiness is reached.  Once the raw route has been served in a
\* process and every upstream fetch returns a valid payload from then on,
\* getCachedData comes to return a snapshot, whatever the blob store does,
\* in a long-lived and in a serverless process alike, also when the first
\* sync of the process failed.  (The clock of the model ends at MaxTime.)
Ready == \A readable \in BOOLEAN : Served(readable, now) # None
C34_ReadinessReached == (upstreamRecovered /\ syncStarted /\ now < MaxTime) ~> Ready

\* C37: getCachedData and getCachedDataWithVersion agree on what the cache
\* holds: on the same tiers, at the same instant and with the same outcome of
\* reading the blob, one answers absent exactly when the other answers
\* data = null, and otherwise both answer from the same tier with the same
\* snapshot; every answer either function gives, to a reader or to the
\* synchronizer, is the one the other function has for that state.
WithVersion(readable, t) ==
    IF readable THEN BlobWithVersion(TRUE, t) ELSE MemoryWithVersion(t)
SnapshotOf(served) == IF served = None THEN None ELSE Some(served[1].snapshot)
PayloadOf(cached) == IF cached = None THEN None ELSE Some(cached[1].data)
TierSource(tier) == IF tier = "blob" THEN blob ELSE memoryCache
ReadersAgree ==
    \A readable \in BOOLEAN :
       /\ SnapshotOf(Served(readable, now)) = WithVersion(readable, now)
       /\ Served(readable, now) # None
          => WithVersion(readable, now) = TierSource(Served(readable, now)[1].tier)
VersionAnswers(j) == reader[j].pc \in {"verHead", "verBlob"} /\ reader'[j].pc = "verDone"
GetAnswersAsVersion ==
    \A j \in ReaderIds :
       (GetAnswers(j) /\ ~reader'[j].threw)
       => reader'[j].ret = PayloadOf(WithVersion(reader'[j].readable, now))
VersionAnswersAsGet ==
    \A j \in ReaderIds :
       (VersionAnswers(j) /\ ~reader'[j].threw)
       => reader'[j].ret = SnapshotOf(Served(reader'[j].readable, now))
SyncComparesServed ==
    \A i \in SyncIds :
       (sync[i].pc \in {"head", "blob"} /\ sync'[i].pc = "fetch")
       => \E readable \in BOOLEAN :
             sync'[i].cached = SnapshotOf(Served(readable, now))
C37_ReadersAgree ==
    []ReadersAgree /\ [][GetAnswersAsVersion /\ VersionAnswersAsGet /\ SyncComparesServed]_vars
C37_Witness ==
    \E j \in ReaderIds :
       /\ reader[j].pc = "verDone"
       /\ reader[j].at = now
       /\ ~reader[j].readable
       /\ reader[j].ret # None
       /\ reader[j].ret = memoryCache
       /\ Served(FALSE, now) = Some([tier |-> "memory", snapshot |-> reader[j].ret[1]])
       /\ blob # None
       /\ blob # memoryCache
       /\ Served(TRUE, now) # None
       /\ Served(TRUE, now)[1].tier = "blob"

\* C38: the sweep is invisible to callers: in the run with sweeps at any
\* instants, also while handlers are awaited, every request is admitted or
\* denied as in the run of the same requests at the same times without a
\* sweep, and every response carries the same status and the same rate-limit
\* header values.
SameDecisions(a, b) ==
    \A k \in Slots : (a.inflight[k] = None) <=> (b.inflight[k] = None)
C38_SweepInvisible ==
    /\ runs.swept.lastResponse = runs.unswept.lastResponse
    /\ SameDecisions(runs.swept, runs.unswept)
C38_Witness ==
    \E c \in ClientIds, k \in Slots :
       /\ runs.swept.store[c] = NoRecord
       /\ runs.unswept.store[c] # NoRecord
       /\ runs.swept.inflight[k] # None
       /\ clientIdOf(runs.swept.inflight[k][1].request) = c
       /\ runs.swept.lastResponse.status = 200
       /\ clientIdOf(runs.swept.lastResponse.request) = c

\* C39: per-client isolation within one limiter: what the observed client
\* key is answered (admitted or denied, status and rate-limit header values)
\* in a run together with the requests of clients with other keys is what it
\* is answered in the run of its own requests alone, at the same times.
SameOwnDecisions(a, b) ==
    \A k \in Slots :
       /\ b.inflight[k] # None => a.inflight[k] = b.inflight[k]
       /\ (a.inflight[k] # None /\ getClientId(a.inflight[k][1].request) = Observed)
          => b.inflight[k] # None
C39_ClientIsolation ==
    /\ runs.shared.lastResponse = runs.alone.lastResponse
    /\ SameOwnDecisions(runs.shared, runs.alone)
C39_Witness ==
    \E c \in ClientIds \ {Observed} :
       /\ runs.shared.store[c] # NoRecord
       /\ RecIn(runs.shared, c, runs.shared.store[c]).count = MaxLimit
       /\ runs.shared.store[Observed] # NoRecord
       /\ RecIn(runs.shared, Observed, runs.shared.store[Observed]).count = 1
       /\ runs.shared.lastResponse.status = 200
       /\ runs.shared.lastResponse.remaining = MaxLimit - 1

\* C40: in a long-lived process at most one interval timer is active after
\* any calls of startBackgroundSync and stopBackgroundSync: the active timers
\* are exactly the one syncInterval refers to, or none; a start while a timer
\* exists creates no timer and starts no sync; stop removes the timer and
\* leaves syncInterval null; a start without a timer, also after a stop,
\* creates exactly one; the raw-data route calls startBackgroundSync on its
\* first request of the process and never again.
AtMostOneTimer ==
    /\ BagCardinality(intervals) <= 1
    /\ syncInterval = None => intervals = EmptyBag
    /\ syncInterval # None => intervals = SetToBag({syncInterval[1]})
StartCalled == startCalls' = startCalls + 1
StartWhileTimerExists ==
    (StartCalled /\ syncInterval # None)
    => UNCHANGED << sync, isRunning, syncInterval, intervals, syncCalls >>
StartWithoutTimer ==
    (StartCalled /\ syncInterval = None)
    => /\ syncInterval' = Some(Timer(now, now + CHECK_INTERVAL))
       /\ intervals' = SetToBag({Timer(now, now + CHECK_INTERVAL)})
       /\ syncCalls' = syncCalls + 1
StopRemovesTimer ==
    stopBackgroundSync
    => /\ syncInterval' = None
       /\ intervals' = EmptyBag
       /\ UNCHANGED << sync, isRunning, startCalls, syncCalls, syncStarted >>
RouteCalled(j) == reader[j].pc = "idle" /\ reader'[j].pc = "head" /\ reader'[j].route = "api"
RouteStartsOnce ==
    /\ syncStarted => syncStarted'
    /\ \A j \in ReaderIds :
          RouteCalled(j)
          => IF syncStarted
             THEN UNCHANGED << startCalls, syncCalls, syncInterval, intervals, sync, isRunning >>
             ELSE StartCalled /\ syncStarted'
C40_OneTimer ==
    []AtMostOneTimer
    /\ [][StartWhileTimerExists /\ StartWithoutTimer /\ StopRemovesTimer /\ RouteStartsOnce]_vars
C40_Witness ==
    /\ now = 0
    /\ startCalls = 2
    /\ syncCalls = 2
    /\ syncStarted
    /\ syncInterval = Some(Timer(0, CHECK_INTERVAL))
    /\ BagCardinality(intervals) = 1

====
